---- MODULE Spec2Model ----
(***************************************************************************)
(* protogo: version resolution, caching, download and unpacking of the     *)
(* protoc / flatc compilers, and the command pipeline of main.             *)
(*                                                                         *)
(* Strings are sequences of one-character strings, so that the string      *)
(* operations of the code (strings.TrimPrefix, strings.Contains,           *)
(* filepath.Join, filepath.Abs) are computed as the code computes them.    *)
(* The path separator is "/".                                              *)
(***************************************************************************)
EXTENDS Integers, Sequences, FiniteSets, TLC

(***************************************************************************)
(* String and path primitives (Go standard library, as used by the code).  *)
(***************************************************************************)

\* strings.HasPrefix
HasPrefix(s, prefix) ==
    /\ Len(prefix) <= Len(s)
    /\ SubSeq(s, 1, Len(prefix)) = prefix

\* strings.TrimPrefix: removes ONE leading occurrence of prefix, if present.
TrimPrefix(s, prefix) ==
    IF HasPrefix(s, prefix) THEN SubSeq(s, Len(prefix) + 1, Len(s)) ELSE s

\* strings.Contains: substr occurs somewhere in s.
Contains(s, substr) ==
    \E i \in 0..(Len(s) - Len(substr)) : SubSeq(s, i + 1, i + Len(substr)) = substr

\* The elements of a path between separators (empty elements included).
RECURSIVE Split(_)
Split(s) ==
    IF s = <<>> THEN << <<>> >>
    ELSE LET rest == Split(Tail(s))
         IN  IF Head(s) = "/" THEN << <<>> >> \o rest
             ELSE << <<Head(s)>> \o Head(rest) >> \o Tail(rest)

\* Elements joined with the separator.
RECURSIVE JoinSegs(_)
JoinSegs(segs) ==
    IF segs = <<>> THEN <<>>
    ELSE IF Len(segs) = 1 THEN segs[1]
    ELSE segs[1] \o <<"/">> \o JoinSegs(Tail(segs))

DotDot == <<".", ".">>

\* The lexical processing of filepath.Clean: drop empty and "." elements,
\* resolve ".." against the element before it, drop ".." at the root, keep
\* leading ".." of a relative path.
RECURSIVE CleanSegs(_, _, _)
CleanSegs(segs, out, rooted) ==
    IF segs = <<>> THEN out
    ELSE LET e == Head(segs)
             r == Tail(segs)
         IN  IF e = <<>> \/ e = <<".">> THEN CleanSegs(r, out, rooted)
             ELSE IF e = DotDot
                  THEN IF Len(out) > 0 /\ out[Len(out)] # DotDot
                       THEN CleanSegs(r, SubSeq(out, 1, Len(out) - 1), rooted)
                       ELSE IF rooted THEN CleanSegs(r, out, rooted)
                       ELSE CleanSegs(r, Append(out, e), rooted)
                  ELSE CleanSegs(r, Append(out, e), rooted)

\* filepath.IsAbs
IsAbs(path) == Len(path) > 0 /\ path[1] = "/"

\* filepath.Clean
Clean(path) ==
    IF path = <<>> THEN <<".">>
    ELSE LET segs == CleanSegs(Split(path), <<>>, IsAbs(path))
         IN  IF IsAbs(path) THEN <<"/">> \o JoinSegs(segs)
             ELSE IF segs = <<>> THEN <<".">> ELSE JoinSegs(segs)

\* The non-empty elements of a list of strings.
RECURSIVE NonEmpty(_)
NonEmpty(elems) ==
    IF elems = <<>> THEN <<>>
    ELSE IF Head(elems) = <<>> THEN NonEmpty(Tail(elems))
    ELSE <<Head(elems)>> \o NonEmpty(Tail(elems))

\* filepath.Join: the non-empty elements joined with the separator, cleaned;
\* the empty string when every element is empty.
Join(elems) ==
    IF NonEmpty(elems) = <<>> THEN <<>> ELSE Clean(JoinSegs(NonEmpty(elems)))

\* The working directory of the process.
Cwd == <<"/", "w", "/", "d">>

\* filepath.Abs
Abs(path) == IF IsAbs(path) THEN Clean(path) ELSE Join(<<Cwd, path>>)

\* The elements of an absolute clean path.
Segs(abspath) == CleanSegs(Split(abspath), <<>>, TRUE)

\* filepath.Dir of a clean path.
Dir(path) ==
    LET segs == Split(path)
    IN  Clean(IF Len(segs) <= 1 THEN <<>>
              ELSE IF IsAbs(path) /\ Len(segs) = 2 THEN <<"/">>
              ELSE JoinSegs(SubSeq(segs, 1, Len(segs) - 1)))

(***************************************************************************)
(* Program constants.                                                      *)
(***************************************************************************)

\* A nil *string.
NilStr == <<"<nil>">>
\* A variable that os.LookupEnv does not find.
Unset == <<"<unset>">>
\* A nil error.
NoErr == "nil"

GO_EXECUTABLE == <<"g", "o">>
NONE_EXECUTABLE == <<>>
PROTOC_EXECUTABLE == <<"p", "r", "o", "t", "o", "c">>
FLATC_EXECUTABLE == <<"f", "l", "a", "t", "c">>

\* Platform fragments: opaque to every operation of the program, one symbol each.
LINUX_AMD64 == <<"linux-x86_64">>
LINUX_AMD32 == <<"linux-x86_32">>
LINUX_390_64 == <<"linux-s390_64">>
LINUX_PPCLE_64 == <<"linux-ppcle_64">>
LINUX_ARM64 == <<"linux-aarch_64">>
OSX_UNIVERSAL == <<"osx-universal_binary">>
WIN32 == <<"win32">>
WIN64 == <<"win64">>
LINUX_ANY == <<"Linux">>
MAC == <<"Mac">>
MAC_INTEL == <<"MacIntel">>
WINDOWS == <<"Windows">>
ADDITION_CLANG == <<".clang++-18">>
ADDITION_GCC == <<".g++-13">>

VersionLatest == <<"l", "a", "t", "e", "s", "t">>
VersionLocal == <<"l", "o", "c", "a", "l">>
BIN == <<"b", "i", "n">>
DASHDASH == <<"-", "-">>

PROTOC_GEN_GO_PACKAGE == <<"protoc-gen-go">>
PROTOC_GEN_GO_GRPC_PACKAGE == <<"protoc-gen-go-grpc">>

LATEST_PROTOC_RELEASE == <<"https://api.github.com/repos/protocolbuffers/protobuf/releases/latest">>
LATEST_FLATC_RELEASE == <<"https://api.github.com/repos/google/flatbuffers/releases/latest">>

\* fmt.Sprintf(PROTOC_BINARY_URL, version, protocZip)
ProtocBinaryUrl(version, protocZip) ==
    <<"https://github.com/protocolbuffers/protobuf/releases/download/v">>
        \o version \o <<"/">> \o protocZip

\* fmt.Sprintf(FLATC_BINARY_URL, version, flatcZip)
FlatcBinaryUrl(version, flatcZip) ==
    <<"https://github.com/google/flatbuffers/releases/download/v">>
        \o version \o <<"/">> \o flatcZip

\* fmt.Sprintf(PROTOC_ZIP_NAME, version, platform) = "protoc-%s-%s.zip"
ProtocZipName(version, platform) ==
    PROTOC_EXECUTABLE \o <<"-">> \o version \o <<"-">> \o platform \o <<".zip">>

\* fmt.Sprintf(FLATC_ZIP_NAME, system, addition) = "%s.flatc.binary%s.zip"
FlatcZipName(system, addition) ==
    system \o <<".flatc.binary">> \o addition \o <<".zip">>

\* os.TempDir()
TempDir == <<"/", "t", "m", "p">>
\* os.UserCacheDir()
UserCacheDir == <<"/", "h">>
\* The Go binary directory found by getGoBinaryLocation.
GoBinDir == <<"/", "g">>

(***************************************************************************)
(* Platform identification.                                                *)
(***************************************************************************)

\* Mutant: the suffix is never appended.
getExecutableName_NoSuffix(goos, executable) == executable

getExecutableName(goos, executable) ==
    IF goos = "windows" THEN executable \o <<".", "e", "x", "e">> ELSE executable

\* Mutant: windows/arm is given the 64-bit build.
getProtocOSandArch_Arm64(goos, goarch) ==
    LET platform ==
            CASE goos = "linux" /\ goarch = "amd64" -> LINUX_AMD64
              [] goos = "linux" /\ goarch = "386" -> LINUX_AMD32
              [] goos = "linux" /\ goarch = "s390x" -> LINUX_390_64
              [] goos = "linux" /\ goarch = "ppc64le" -> LINUX_PPCLE_64
              [] goos = "linux" /\ goarch = "arm64" -> LINUX_ARM64
              [] goos = "darwin" /\ goarch \in {"amd64", "arm64"} -> OSX_UNIVERSAL
              [] goos = "windows" /\ goarch \in {"386"} -> WIN32
              [] goos = "windows" /\ goarch \in {"amd64", "arm64", "arm"} -> WIN64
              [] OTHER -> NilStr
        undefinedOS == goos \notin {"linux", "darwin", "windows"}
    IN  IF undefinedOS THEN [platform |-> NilStr, err |-> "unsupported OS"]
        ELSE IF platform = NilStr
             THEN [platform |-> NilStr, err |-> "unsupported architecture"]
        ELSE [platform |-> platform, err |-> NoErr]

getProtocOSandArch(goos, goarch) ==
    LET platform ==
            CASE goos = "linux" /\ goarch = "amd64" -> LINUX_AMD64
              [] goos = "linux" /\ goarch = "386" -> LINUX_AMD32
              [] goos = "linux" /\ goarch = "s390x" -> LINUX_390_64
              [] goos = "linux" /\ goarch = "ppc64le" -> LINUX_PPCLE_64
              [] goos = "linux" /\ goarch = "arm64" -> LINUX_ARM64
              [] goos = "darwin" /\ goarch \in {"amd64", "arm64"} -> OSX_UNIVERSAL
              [] goos = "windows" /\ goarch \in {"386", "arm"} -> WIN32
              [] goos = "windows" /\ goarch \in {"amd64", "arm64"} -> WIN64
              [] OTHER -> NilStr
        undefinedOS == goos \notin {"linux", "darwin", "windows"}
    IN  IF undefinedOS THEN [platform |-> NilStr, err |-> "unsupported OS"]
        ELSE IF platform = NilStr
             THEN [platform |-> NilStr, err |-> "unsupported architecture"]
        ELSE [platform |-> platform, err |-> NoErr]

\* Mutant: an unknown architecture on darwin is reported as an unknown OS.
getFlatcOSandAddition_ArchAsOS(goos, goarch, distro) ==
    LET addition ==
            IF goos # "linux" THEN <<>>
            ELSE IF distro = Unset THEN ADDITION_GCC
            ELSE IF distro = <<"g", "+", "+">> THEN ADDITION_GCC
            ELSE IF distro = <<"c", "l", "a", "n", "g">> THEN ADDITION_CLANG
            ELSE <<>>
        system ==
            CASE goos = "linux" -> LINUX_ANY
              [] goos = "darwin" /\ goarch = "amd64" -> MAC_INTEL
              [] goos = "darwin" /\ goarch = "arm64" -> MAC
              [] goos = "windows" -> WINDOWS
              [] OTHER -> NilStr
    IN  IF system = NilStr
        THEN [system |-> NilStr, addition |-> addition, err |-> "unsupported OS"]
        ELSE [system |-> system, addition |-> addition, err |-> NoErr]

\* distro: the value of PROTOGO_FLATC_DISTRO, or Unset.
getFlatcOSandAddition(goos, goarch, distro) ==
    LET addition ==
            IF goos # "linux" THEN <<>>
            ELSE IF distro = Unset THEN ADDITION_GCC
            ELSE IF distro = <<"g", "+", "+">> THEN ADDITION_GCC
            ELSE IF distro = <<"c", "l", "a", "n", "g">> THEN ADDITION_CLANG
            ELSE <<>>
        system ==
            CASE goos = "linux" -> LINUX_ANY
              [] goos = "darwin" /\ goarch = "amd64" -> MAC_INTEL
              [] goos = "darwin" /\ goarch = "arm64" -> MAC
              [] goos = "windows" -> WINDOWS
              [] OTHER -> NilStr
        undefinedOS == goos \notin {"linux", "darwin", "windows"}
    IN  IF undefinedOS
        THEN [system |-> NilStr, addition |-> addition, err |-> "unsupported OS"]
        ELSE IF system = NilStr
             THEN [system |-> NilStr, addition |-> addition,
                   err |-> "unsupported architecture"]
        ELSE [system |-> system, addition |-> addition, err |-> NoErr]

(***************************************************************************)
(* The filesystem: a function from absolute clean paths to entries         *)
(* [kind |-> "dir" | "file", data |-> the file's content].                 *)
(***************************************************************************)

DirEntry == [kind |-> "dir", data |-> ""]
FileEntry(data) == [kind |-> "file", data |-> data]

\* The absolute paths of a path and of all the directories above it
\* (the root excluded).
Ancestors(abspath) ==
    LET segs == Segs(abspath)
    IN  { <<"/">> \o JoinSegs(SubSeq(segs, 1, k)) : k \in 1..Len(segs) }

\* os.Stat succeeds.
Exists(f, path) == Abs(path) \in DOMAIN f

\* os.Stat succeeds and FileInfo.IsDir().
IsDirectory(f, path) == Exists(f, path) /\ f[Abs(path)].kind = "dir"

\* os.MkdirAll fails when a file is in the way.
MkdirAllOK(f, path) ==
    \A a \in Ancestors(Abs(path)) : a \in DOMAIN f => f[a].kind = "dir"

\* os.MkdirAll: the directory and every missing parent.
MkdirAll(f, path) ==
    LET new == Ancestors(Abs(path)) \ DOMAIN f
    IN  [a \in DOMAIN f \cup new |-> IF a \in new THEN DirEntry ELSE f[a]]

\* os.OpenFile(path, O_WRONLY|O_CREATE|O_TRUNC) and os.Create fail on a
\* directory and under a missing parent.
CreateOK(f, path) ==
    /\ ~IsDirectory(f, path)
    /\ (Dir(Abs(path)) = <<"/">> \/ IsDirectory(f, Dir(Abs(path))))

\* Mutant: a file that exists keeps its content.
WriteFile_KeepOld(f, path, data) ==
    [a \in DOMAIN f \cup {Abs(path)} |->
        IF a # Abs(path) THEN f[a]
        ELSE IF a \in DOMAIN f THEN f[a] ELSE FileEntry(data)]

\* The file created or truncated, then holding data.
WriteFile(f, path, data) ==
    [a \in DOMAIN f \cup {Abs(path)} |-> IF a = Abs(path) THEN FileEntry(data) ELSE f[a]]

\* os.Remove of a file. Windows refuses to delete a file that is open
\* (os.Create opens it without FILE_SHARE_DELETE); elsewhere the name goes.
RemoveOK(goos, f, path, open) ==
    /\ Exists(f, path)
    /\ (goos = "windows" => Abs(path) \notin open)

Remove(goos, f, path, open) ==
    IF RemoveOK(goos, f, path, open)
    THEN [a \in DOMAIN f \ {Abs(path)} |-> f[a]]
    ELSE f

(***************************************************************************)
(* Release metadata client.                                                *)
(***************************************************************************)

\* The tag_name values the release listing may carry.
LatestTags == { <<"v", "3", "1", ".", "0">> }

\* What the metadata request may come back with.
MetadataResponses ==
    [kind : {"transport error", "undecodable", "no tag_name", "tag_name not string"},
     tag : {NilStr}]
    \cup [kind : {"ok"}, tag : LatestTags]

\* Mutant: the tag is returned without its leading "v".
getLatestReleaseTag_Stripped(resp) ==
    CASE resp.kind = "transport error" ->
            [tag |-> NilStr, err |-> "reading latest release error"]
      [] resp.kind = "undecodable" ->
            [tag |-> NilStr, err |-> "latest release info parsing error"]
      [] resp.kind = "no tag_name" ->
            [tag |-> NilStr, err |-> "latest release info 'tag_name' not found"]
      [] resp.kind = "tag_name not string" ->
            [tag |-> NilStr, err |-> "latest release info 'tag_name' field is not string"]
      [] OTHER -> [tag |-> IF resp.tag # <<>> /\ resp.tag[1] = "v" THEN Tail(resp.tag)
                           ELSE resp.tag,
                   err |-> NoErr]

\* getLatestProtocReleaseTag / getLatestFlatcReleaseTag on a response.
getLatestReleaseTag(resp) ==
    CASE resp.kind = "transport error" ->
            [tag |-> NilStr, err |-> "reading latest release error"]
      [] resp.kind = "undecodable" ->
            [tag |-> NilStr, err |-> "latest release info parsing error"]
      [] resp.kind = "no tag_name" ->
            [tag |-> NilStr, err |-> "latest release info 'tag_name' not found"]
      [] resp.kind = "tag_name not string" ->
            [tag |-> NilStr, err |-> "latest release info 'tag_name' field is not string"]
      [] OTHER -> [tag |-> resp.tag, err |-> NoErr]

(***************************************************************************)
(* Cache resolver.                                                         *)
(***************************************************************************)

\* Mutant: the tag is used as given.
Normalize_Keep(versionTag) == versionTag

\* strings.TrimPrefix(versionTag, "v")
Normalize(versionTag) == TrimPrefix(versionTag, <<"v">>)

\* filepath.Join(cacheDir, fmt.Sprintf("protoc-%s", versionTag))
ProtocCacheDir(cacheDir, versionTag) ==
    Join(<<cacheDir, PROTOC_EXECUTABLE \o <<"-">> \o versionTag>>)

\* filepath.Join(cacheDir, fmt.Sprintf("flatc-%s", versionTag))
FlatcCacheDir(cacheDir, versionTag) ==
    Join(<<cacheDir, FLATC_EXECUTABLE \o <<"-">> \o versionTag>>)

\* filepath.Join(protocCache, "bin", getExecutableName(PROTOC_EXECUTABLE))
ProtocExecPath(goos, protocCache) ==
    Join(<<protocCache, BIN, getExecutableName(goos, PROTOC_EXECUTABLE)>>)

\* filepath.Join(flatcCache, getExecutableName(FLATC_EXECUTABLE))
FlatcExecPath(goos, flatcCache) ==
    Join(<<flatcCache, getExecutableName(goos, FLATC_EXECUTABLE)>>)

\* Mutant: the probe of the other family, asking for a directory.
ProtocProbeMisses_Dir(f, protocExec) ==
    ~Exists(f, protocExec) \/ ~IsDirectory(f, protocExec)

\* The probe of getProtocCache: os.Stat(protocExec) returns an error.
ProtocProbeMisses(f, protocExec) == ~Exists(f, protocExec)

\* The probe of getFlatcCache: os.Stat(flatcExec) returns an error, or what
\* is there is not a directory.
FlatcProbeMisses(f, flatcExec) == ~Exists(f, flatcExec) \/ ~IsDirectory(f, flatcExec)

\* Mutant: an unset variable means the local installation.
VersionRequest_Local(value) == IF value = Unset THEN VersionLocal ELSE value

\* The version request: the variable's value, "latest" when it is unset.
VersionRequest(value) == IF value = Unset THEN VersionLatest ELSE value

\* Mutant: the leading "v" is removed before the sentinels are looked for.
getCache_TrimFirst(compiler, value, cacheDir, goos, f, resp, onPath) ==
    LET requested == TrimPrefix(VersionRequest(value), <<"v">>)
        latest == getLatestReleaseTag(resp)
        failed(e, n, l) ==
            [tag |-> NilStr, cache |-> NilStr, shouldDownload |-> FALSE, err |-> e,
             requests |-> n, lookups |-> l, probed |-> NilStr, raw |-> NilStr]
    IN  IF requested = VersionLatest /\ latest.err # NoErr
        THEN failed("latest version tag couldn't be resolved", 1, 0)
        ELSE IF requested = VersionLocal
        THEN IF ~onPath THEN failed("executable couldn't be found", 0, 1)
             ELSE [tag |-> requested, cache |-> NilStr, shouldDownload |-> FALSE,
                   err |-> NoErr, requests |-> 0, lookups |-> 1, probed |-> NilStr,
                   raw |-> NilStr]
        ELSE LET raw == IF requested = VersionLatest THEN latest.tag ELSE requested
                 versionTag == Normalize(raw)
                 cache == IF compiler = PROTOC_EXECUTABLE
                          THEN ProtocCacheDir(cacheDir, versionTag)
                          ELSE FlatcCacheDir(cacheDir, versionTag)
                 exec == IF compiler = PROTOC_EXECUTABLE
                         THEN ProtocExecPath(goos, cache)
                         ELSE FlatcExecPath(goos, cache)
                 misses == IF compiler = PROTOC_EXECUTABLE
                           THEN ProtocProbeMisses(f, exec)
                           ELSE FlatcProbeMisses(f, exec)
             IN  [tag |-> versionTag, cache |-> cache, shouldDownload |-> misses,
                  err |-> NoErr,
                  requests |-> IF requested = VersionLatest THEN 1 ELSE 0,
                  lookups |-> 0, probed |-> exec, raw |-> raw]

\* getProtocCache / getFlatcCache. value: what os.LookupEnv(key) gives;
\* resp: the answer to the metadata request, should one be made;
\* onPath: whether exec.LookPath finds the compiler, should it be asked.
\* requests and lookups count the metadata requests and PATH lookups made,
\* probed is the path given to os.Stat (NilStr when none was), raw is the
\* tag before strings.TrimPrefix.
getCache(compiler, value, cacheDir, goos, f, resp, onPath) ==
    LET requested == VersionRequest(value)
        latest == getLatestReleaseTag(resp)
        failed(e, n, l) ==
            [tag |-> NilStr, cache |-> NilStr, shouldDownload |-> FALSE, err |-> e,
             requests |-> n, lookups |-> l, probed |-> NilStr, raw |-> NilStr]
    IN  IF requested = VersionLatest /\ latest.err # NoErr
        THEN failed("latest version tag couldn't be resolved", 1, 0)
        ELSE IF requested = VersionLocal
        THEN IF ~onPath THEN failed("executable couldn't be found", 0, 1)
             ELSE [tag |-> requested, cache |-> NilStr, shouldDownload |-> FALSE,
                   err |-> NoErr, requests |-> 0, lookups |-> 1, probed |-> NilStr,
                   raw |-> NilStr]
        ELSE LET raw == IF requested = VersionLatest THEN latest.tag ELSE requested
                 versionTag == Normalize(raw)
                 cache == IF compiler = PROTOC_EXECUTABLE
                          THEN ProtocCacheDir(cacheDir, versionTag)
                          ELSE FlatcCacheDir(cacheDir, versionTag)
                 exec == IF compiler = PROTOC_EXECUTABLE
                         THEN ProtocExecPath(goos, cache)
                         ELSE FlatcExecPath(goos, cache)
                 misses == IF compiler = PROTOC_EXECUTABLE
                           THEN ProtocProbeMisses(f, exec)
                           ELSE FlatcProbeMisses(f, exec)
             IN  [tag |-> versionTag, cache |-> cache, shouldDownload |-> misses,
                  err |-> NoErr,
                  requests |-> IF requested = VersionLatest THEN 1 ELSE 0,
                  lookups |-> 0, probed |-> exec, raw |-> raw]

(***************************************************************************)
(* Archives.                                                               *)
(***************************************************************************)

\* What the binary request may come back with: a transport error, or a body.
\* "release" is the family's published archive, "slip" (between a directory
\* and a file) and "sibling" hold an entry that points out of the destination,
\* "notzip" is no ZIP archive
\* (such as the page of a 404 answer).
Bodies == {"release", "slip", "sibling", "notzip"}

\* filepath.Base of a clean path.
Base(path) == LET segs == Split(path) IN segs[Len(segs)]

Entry(name, data) == [name |-> name, data |-> data]

\* The entries of a body, in archive order.
ArchiveEntries(body, compiler, goos, dest) ==
    CASE body = "release" /\ compiler = PROTOC_EXECUTABLE ->
            << Entry(BIN \o <<"/">> \o getExecutableName(goos, PROTOC_EXECUTABLE), "protoc binary"),
               Entry(<<"i", "n", "c", "/">>, "") >>
      [] body = "release" /\ compiler = FLATC_EXECUTABLE ->
            << Entry(getExecutableName(goos, FLATC_EXECUTABLE), "flatc binary") >>
      [] body = "slip" ->
            << Entry(<<"r", "/">>, ""),
               Entry(<<".", ".", "/", ".", ".", "/", "e", "v", "i", "l">>, "evil"),
               Entry(<<"z">>, "late") >>
      [] body = "sibling" ->
            << Entry(<<".", ".", "/">> \o Base(dest) \o <<"-", "e", "v", "i", "l", "/", "x">>,
                     "evil") >>
      [] OTHER -> <<>>

\* zip.File.FileInfo().IsDir(): the stored name ends with a slash.
IsDirEntry(e) == Len(e.name) > 0 /\ e.name[Len(e.name)] = "/"

\* The path extractItem resolves for an entry.
ItemPath(dest, name) == Abs(Join(<<dest, name>>))

\* The guard of extractItem: the entry is refused unless this holds.
GuardAccepts(fpath, dest) == Contains(fpath, dest)

\* extractItem (with extractFile) on filesystem f: the error and the
\* filesystem it leaves. copyOK: whether io.Copy of the content succeeds.
extractItem(f, e, dest, copyOK) ==
    LET fpath == ItemPath(dest, e.name)
    IN  IF ~GuardAccepts(fpath, dest)
        THEN [err |-> "error extracting path", fs |-> f]
        ELSE IF IsDirEntry(e)
        THEN IF MkdirAllOK(f, fpath)
             THEN [err |-> NoErr, fs |-> MkdirAll(f, fpath)]
             ELSE [err |-> "error making directory", fs |-> f]
        ELSE IF ~MkdirAllOK(f, Dir(fpath))
        THEN [err |-> "error making directory", fs |-> f]
        ELSE LET g == MkdirAll(f, Dir(fpath))
             IN  IF ~CreateOK(g, fpath)
                 THEN [err |-> "error opening file", fs |-> g]
                 ELSE IF ~copyOK
                 THEN [err |-> "error copying file contents", fs |-> WriteFile(g, fpath, "")]
                 ELSE [err |-> NoErr, fs |-> WriteFile(g, fpath, e.data)]

(***************************************************************************)
(* State.                                                                  *)
(***************************************************************************)

VARIABLES
    GOOS,       \* runtime.GOOS
    GOARCH,     \* runtime.GOARCH
    environ,    \* the environment variables: name -> value, or Unset
    osArgs,     \* os.Args
    fs,         \* the filesystem, shared by all invocations
    active,     \* the processes that run protogo
    pc,         \* where each process is in main
    loc,        \* the local variables of main and of the function it is in
    exitCode,   \* the status of the last exit of each process
    installs,   \* history: the installs completed so far
    ret         \* the last function called on its own, and what it returned

vars == <<GOOS, GOARCH, environ, osArgs, fs, active, pc, loc, exitCode, installs, ret>>

Procs == {1, 2}

\* Operating systems and architectures the program is run on.
Platforms ==
    { <<"linux", "amd64">>, <<"windows", "amd64">>, <<"darwin", "386">>,
      <<"plan9", "amd64">> }

\* Values of PROTOGO_PROTOC_VERSION / PROTOGO_FLATC_VERSION.
VersionValues ==
    { Unset, VersionLocal, <<"1">>, <<"v", "1">>, <<"v", "v", "1">> }

\* Values of PROTOGO_CACHE: unset, the Makefile's ./t/, and a path that
\* starts above the working directory.
CacheValues == { Unset, <<".", "/", "t", "/">>, <<".", ".", "/", "t">> }

\* Values of PROTOGO_FLATC_DISTRO.
DistroValues == { Unset }

\* Command lines.
ArgVectors ==
    { << <<"protogo">> >>,
      << <<"protogo">>, <<"version">> >>,
      << <<"protogo">>, <<"version">>, DASHDASH, PROTOC_EXECUTABLE, <<"--version">> >>,
      << <<"protogo">>, <<"version">>, DASHDASH, FLATC_EXECUTABLE, <<"--version">> >>,
      << <<"protogo">>, DASHDASH, PROTOC_EXECUTABLE >>,
      << <<"protogo">>, <<"version">>, DASHDASH >>,
      << <<"protogo">>, DASHDASH, <<"gcc">>, <<"--version">> >>,
      << <<"protogo">>, DASHDASH, <<"gcc">>, DASHDASH >>,
      << <<"protogo">>, DASHDASH, <<>>, <<"x">> >> }

\* The locals before main has assigned them.
InitLoc ==
    [goArgs |-> <<>>, compiler |-> NONE_EXECUTABLE, compilerArgs |-> <<>>,
     protogoCache |-> NilStr, goExec |-> NilStr, goBin |-> NilStr,
     versionTag |-> NilStr, cache |-> NilStr, shouldDownload |-> FALSE,
     rawTag |-> NilStr, probed |-> NilStr, lookups |-> 0, onPath |-> FALSE,
     requests |-> <<>>,
     archive |-> NilStr, body |-> "", index |-> 0, created |-> FALSE,
     outOpen |-> FALSE,
     err |-> NoErr, compilerExecutable |-> <<>>,
     ran |-> <<>>, ensured |-> <<>>, installsBefore |-> {}]

\* The filesystem before protogo has ever run.
InitFs ==
    [a \in {TempDir, UserCacheDir, <<"/", "w">>, Cwd, GoBinDir} |-> DirEntry]

InitEnv ==
    /\ \E plat \in Platforms : GOOS = plat[1] /\ GOARCH = plat[2]
    /\ \E v \in VersionValues, c \in CacheValues, d \in DistroValues :
          environ = [PROTOGO_PROTOC_VERSION |-> v, PROTOGO_FLATC_VERSION |-> v,
                     PROTOGO_CACHE |-> c, PROTOGO_FLATC_DISTRO |-> d,
                     PROTOGO_GITHUB_BEARER_TOKEN |-> Unset]
    /\ osArgs \in ArgVectors
    /\ fs = InitFs
    /\ pc = [p \in Procs |-> "start"]
    /\ loc = [p \in Procs |-> InitLoc]
    /\ exitCode = [p \in Procs |-> 0]
    /\ installs = {}
    /\ ret = [fn |-> "none"]

\* One invocation at a time.
Init == InitEnv /\ active = {1}

(***************************************************************************)
(* main.                                                                   *)
(***************************************************************************)

\* logrus.Fatalf and os.Exit(code).
Exit(p, code) ==
    /\ pc' = [pc EXCEPT ![p] = "exit"]
    /\ exitCode' = [exitCode EXCEPT ![p] = code]

Goto(p, label) ==
    /\ pc' = [pc EXCEPT ![p] = label]
    /\ UNCHANGED exitCode

\* Mutant: the last "--" is taken.
ArgsDelim_Last(args) ==
    IF \E i \in 2..Len(args) : args[i] = DASHDASH
    THEN CHOOSE i \in 2..Len(args) :
            args[i] = DASHDASH /\ \A j \in (i + 1)..Len(args) : args[j] # DASHDASH
    ELSE 0

\* The index in os.Args (counted from 1, the program name first) of the
\* first "--" after the program name; 0 when there is none.
ArgsDelim(args) ==
    IF \E i \in 2..Len(args) : args[i] = DASHDASH
    THEN CHOOSE i \in 2..Len(args) :
            args[i] = DASHDASH /\ \A j \in 2..(i - 1) : args[j] # DASHDASH
    ELSE 0

\* main, from the argument loop to the check of the compiler name.
ParseArgs(p) ==
    /\ p \in active
    /\ pc[p] = "start"
    /\ LET argsDelim == ArgsDelim(osArgs)
           argLen == Len(osArgs)
           compiler == IF argsDelim + 1 <= argLen THEN osArgs[argsDelim + 1]
                       ELSE NONE_EXECUTABLE
           parsed == [InitLoc EXCEPT
                        !.goArgs = SubSeq(osArgs, 2, argsDelim - 1),
                        !.compiler = compiler,
                        !.compilerArgs = SubSeq(osArgs, argsDelim + 2, argLen),
                        !.installsBefore = installs]
       IN  IF argsDelim = 0
           THEN /\ loc' = [loc EXCEPT ![p] = [InitLoc EXCEPT !.err = "help"]]
                /\ Exit(p, 0)
           ELSE IF compiler \notin {PROTOC_EXECUTABLE, FLATC_EXECUTABLE, NONE_EXECUTABLE}
           THEN /\ loc' = [loc EXCEPT ![p] = [parsed EXCEPT !.err = "unknown compiler"]]
                /\ Exit(p, 1)
           ELSE /\ loc' = [loc EXCEPT ![p] = parsed]
                /\ Goto(p, "cache")
    /\ UNCHANGED <<GOOS, GOARCH, environ, osArgs, ret, fs, active, installs>>

\* getProtogoCacheDir("PROTOGO_CACHE") and main's check of its result.
\* cacheOK: os.UserCacheDir succeeds; mkdirOK: no I/O error in os.MkdirAll.
GetProtogoCacheDir(p) ==
    /\ p \in active
    /\ pc[p] = "cache"
    /\ \E cacheOK \in IF environ["PROTOGO_CACHE"] = Unset THEN BOOLEAN ELSE {TRUE},
          mkdirOK \in BOOLEAN :
         LET value == environ["PROTOGO_CACHE"]
             cacheDir == IF value # Unset THEN value
                         ELSE Join(<<UserCacheDir, <<"p", "g">> >>)
         IN  IF value = Unset /\ ~cacheOK
             THEN /\ loc' = [loc EXCEPT ![p].err = "user cache directory couldn't be resolved"]
                  /\ fs' = fs
                  /\ Exit(p, 1)
             ELSE IF ~mkdirOK \/ ~MkdirAllOK(fs, cacheDir)
             THEN /\ loc' = [loc EXCEPT ![p].err = "could not create cache directory"]
                  /\ fs' = fs
                  /\ Exit(p, 1)
             ELSE /\ loc' = [loc EXCEPT ![p].protogoCache = cacheDir]
                  /\ fs' = MkdirAll(fs, cacheDir)
                  /\ Goto(p, "goexec")
    /\ UNCHANGED <<GOOS, GOARCH, environ, osArgs, ret, active, installs>>

\* getGoExecutable("PROTOGO_GO_EXECUTABLE") and main's check of its result.
GetGoExecutable(p) ==
    /\ p \in active
    /\ pc[p] = "goexec"
    /\ \E found \in BOOLEAN :
         IF found
         THEN /\ loc' = [loc EXCEPT ![p].goExec = getExecutableName(GOOS, GO_EXECUTABLE)]
              /\ Goto(p, "gobin")
         ELSE /\ loc' = [loc EXCEPT ![p].err = "go executable couldn't be found"]
              /\ Exit(p, 1)
    /\ UNCHANGED <<GOOS, GOARCH, environ, osArgs, ret, fs, active, installs>>

\* getGoBinaryLocation(goExec), main's check of its result, and the switch
\* on the compiler name.
GetGoBinaryLocation(p) ==
    /\ p \in active
    /\ pc[p] = "gobin"
    /\ \E found \in BOOLEAN :
         IF found
         THEN /\ loc' = [loc EXCEPT ![p].goBin = GoBinDir]
              /\ Goto(p, IF loc[p].compiler = NONE_EXECUTABLE THEN "compile" ELSE "resolve")
         ELSE /\ loc' = [loc EXCEPT ![p].err = "user home directory couldn't be resolved"]
              /\ Exit(p, 1)
    /\ UNCHANGED <<GOOS, GOARCH, environ, osArgs, ret, fs, active, installs>>

\* The name of the variable holding the compiler's version request.
VersionKey(compiler) ==
    IF compiler = PROTOC_EXECUTABLE THEN "PROTOGO_PROTOC_VERSION"
    ELSE "PROTOGO_FLATC_VERSION"

\* The answers the metadata request can get; one that is never looked at
\* when no request is made.
MetadataAnswers(value) ==
    IF VersionRequest(value) = VersionLatest THEN MetadataResponses
    ELSE {[kind |-> "transport error", tag |-> NilStr]}

\* The answers exec.LookPath can give; one that is never looked at when it
\* is not asked.
LookPathAnswers(value) ==
    IF VersionRequest(value) = VersionLocal THEN BOOLEAN ELSE {FALSE}

\* A request made by makeGETRequestToGitHubAPI.
Request(url, binary) == [url |-> url, binary |-> binary]

\* Mutant: the resolver leaves the download to an invocation that is
\* already in it.
Resolve_Yield(p) ==
    /\ p \in active
    /\ pc[p] = "resolve"
    /\ \E resp \in MetadataAnswers(environ[VersionKey(loc[p].compiler)]),
          onPath \in LookPathAnswers(environ[VersionKey(loc[p].compiler)]) :
         LET compiler == loc[p].compiler
             r == getCache(compiler, environ[VersionKey(compiler)], loc[p].protogoCache,
                           GOOS, fs, resp, onPath)
             url == IF compiler = PROTOC_EXECUTABLE THEN LATEST_PROTOC_RELEASE
                    ELSE LATEST_FLATC_RELEASE
             made == [i \in 1..r.requests |-> Request(url, FALSE)]
             taken == \E q \in Procs \ {p} : loc[q].created /\ loc[q].cache = r.cache
         IN  /\ loc' = [loc EXCEPT ![p].versionTag = r.tag,
                                   ![p].cache = r.cache,
                                   ![p].shouldDownload = r.shouldDownload /\ ~taken,
                                   ![p].probed = r.probed,
                                   ![p].rawTag = r.raw,
                                   ![p].lookups = r.lookups,
                                   ![p].onPath = (r.lookups > 0 /\ onPath),
                                   ![p].err = r.err,
                                   ![p].requests = loc[p].requests \o made]
             /\ IF r.err # NoErr THEN Exit(p, 1) ELSE Goto(p, "resolved")
    /\ UNCHANGED <<GOOS, GOARCH, environ, osArgs, ret, fs, active, installs>>

\* main's call of getProtocCache / getFlatcCache and the check of its error.
Resolve(p) ==
    /\ p \in active
    /\ pc[p] = "resolve"
    /\ \E resp \in MetadataAnswers(environ[VersionKey(loc[p].compiler)]),
          onPath \in LookPathAnswers(environ[VersionKey(loc[p].compiler)]) :
         LET compiler == loc[p].compiler
             r == getCache(compiler, environ[VersionKey(compiler)], loc[p].protogoCache,
                           GOOS, fs, resp, onPath)
             url == IF compiler = PROTOC_EXECUTABLE THEN LATEST_PROTOC_RELEASE
                    ELSE LATEST_FLATC_RELEASE
             made == [i \in 1..r.requests |-> Request(url, FALSE)]
         IN  /\ loc' = [loc EXCEPT ![p].versionTag = r.tag,
                                   ![p].cache = r.cache,
                                   ![p].shouldDownload = r.shouldDownload,
                                   ![p].probed = r.probed,
                                   ![p].rawTag = r.raw,
                                   ![p].lookups = r.lookups,
                                   ![p].onPath = (r.lookups > 0 /\ onPath),
                                   ![p].err = r.err,
                                   ![p].requests = loc[p].requests \o made]
             /\ IF r.err # NoErr THEN Exit(p, 1) ELSE Goto(p, "resolved")
    /\ UNCHANGED <<GOOS, GOARCH, environ, osArgs, ret, fs, active, installs>>

(***************************************************************************)
(* downloadProtocVersion / downloadFlatcVersion, step by step.             *)
(***************************************************************************)

\* The archive name and URL, or the error of the platform identification.
DownloadTarget(compiler, version, goos, goarch, distro) ==
    IF compiler = PROTOC_EXECUTABLE
    THEN LET r == getProtocOSandArch(goos, goarch)
             zip == ProtocZipName(version, r.platform)
         IN  [err |-> r.err, zip |-> zip, url |-> ProtocBinaryUrl(version, zip)]
    ELSE LET r == getFlatcOSandAddition(goos, goarch, distro)
             zip == FlatcZipName(r.system, r.addition)
         IN  [err |-> r.err, zip |-> zip, url |-> FlatcBinaryUrl(version, zip)]

\* filepath.Join(os.TempDir(), zip)
ArchivePath(zip) == Join(<<TempDir, zip>>)

\* Mutant: the download returns a path under bin/ for either family.
DownloadedExec_Bin(compiler, goos, cacheDir) ==
    Join(<<cacheDir, BIN, getExecutableName(goos, compiler)>>)

\* filepath.Join(cacheDir, "bin", getExecutableName(PROTOC_EXECUTABLE)) / 
\* filepath.Join(cacheDir, getExecutableName(FLATC_EXECUTABLE)): the path
\* the download returns.
DownloadedExec(compiler, goos, cacheDir) ==
    IF compiler = PROTOC_EXECUTABLE
    THEN Join(<<cacheDir, BIN, getExecutableName(goos, PROTOC_EXECUTABLE)>>)
    ELSE Join(<<cacheDir, getExecutableName(goos, FLATC_EXECUTABLE)>>)

\* The temporary archives that some process holds open for writing.
OpenArchives == { Abs(loc[q].archive) : q \in { r \in Procs : loc[r].outOpen } }

\* main enters the download; the platform is identified and the binary
\* request made. resp: a transport error, or the body received.
DownloadRequest(p) ==
    /\ p \in active
    /\ pc[p] = "resolved"
    /\ loc[p].shouldDownload
    /\ \E resp \in {"transport error"} \cup Bodies :
         LET t == DownloadTarget(loc[p].compiler, loc[p].versionTag, GOOS, GOARCH,
                                 environ["PROTOGO_FLATC_DISTRO"])
         IN  IF t.err # NoErr
             THEN /\ loc' = [loc EXCEPT ![p].err = t.err]
                  /\ Exit(p, 1)
             ELSE IF resp = "transport error"
             THEN /\ loc' = [loc EXCEPT ![p].err = "accessing URL error",
                                        ![p].requests = Append(@, Request(t.url, TRUE))]
                  /\ Exit(p, 1)
             ELSE /\ loc' = [loc EXCEPT ![p].requests = Append(@, Request(t.url, TRUE)),
                                        ![p].body = resp,
                                        ![p].archive = ArchivePath(t.zip)]
                  /\ Goto(p, "dl_create")
    /\ UNCHANGED <<GOOS, GOARCH, environ, osArgs, ret, fs, active, installs>>

\* os.Create(archive) and the two defers it is followed by.
DownloadCreate(p) ==
    /\ p \in active
    /\ pc[p] = "dl_create"
    /\ \E ioOK \in BOOLEAN :
         IF ioOK /\ CreateOK(fs, loc[p].archive)
         THEN /\ fs' = WriteFile(fs, loc[p].archive, "")
              /\ loc' = [loc EXCEPT ![p].created = TRUE, ![p].outOpen = TRUE]
              /\ Goto(p, "dl_copy")
         ELSE /\ fs' = fs
              /\ loc' = [loc EXCEPT ![p].err = "creating file error"]
              /\ Exit(p, 1)
    /\ UNCHANGED <<GOOS, GOARCH, environ, osArgs, ret, active, installs>>

\* io.Copy(out, resp.Body)
DownloadCopy(p) ==
    /\ p \in active
    /\ pc[p] = "dl_copy"
    /\ \E ioOK \in BOOLEAN :
         /\ fs' = IF ioOK /\ Exists(fs, loc[p].archive)
                  THEN WriteFile(fs, loc[p].archive, loc[p].body)
                  ELSE fs
         /\ IF ioOK
            THEN /\ loc' = loc
                 /\ Goto(p, "dl_unzip")
            ELSE /\ loc' = [loc EXCEPT ![p].err = "response copying error"]
                 /\ Goto(p, "dl_remove")
    /\ UNCHANGED <<GOOS, GOARCH, environ, osArgs, ret, active, installs>>

\* Mutant: the destination directory is made before the archive is opened.
UnzipOpen_MkdirFirst(p) ==
    /\ p \in active
    /\ pc[p] = "dl_unzip"
    /\ LET held == IF Exists(fs, loc[p].archive) THEN fs[Abs(loc[p].archive)].data
                   ELSE ""
           n == Len(ArchiveEntries(held, loc[p].compiler, GOOS, loc[p].cache))
       IN  IF held \notin Bodies \ {"notzip"}
           THEN /\ loc' = [loc EXCEPT ![p].err = "error opening archive reader"]
                /\ Goto(p, "dl_remove")
           ELSE /\ loc' = [loc EXCEPT ![p].body = held, ![p].index = 1]
                /\ Goto(p, IF n = 0 THEN "dl_remove" ELSE "dl_extract")
    /\ fs' = IF MkdirAllOK(fs, loc[p].cache) THEN MkdirAll(fs, loc[p].cache) ELSE fs
    /\ UNCHANGED <<GOOS, GOARCH, environ, osArgs, ret, active, installs>>

\* unzip: zip.OpenReader(src). What is read is what the file holds.
UnzipOpen(p) ==
    /\ p \in active
    /\ pc[p] = "dl_unzip"
    /\ LET held == IF Exists(fs, loc[p].archive) THEN fs[Abs(loc[p].archive)].data
                   ELSE ""
           n == Len(ArchiveEntries(held, loc[p].compiler, GOOS, loc[p].cache))
       IN  IF held \notin Bodies \ {"notzip"}
           THEN /\ loc' = [loc EXCEPT ![p].err = "error opening archive reader"]
                /\ Goto(p, "dl_remove")
           ELSE /\ loc' = [loc EXCEPT ![p].body = held, ![p].index = 1]
                /\ Goto(p, IF n = 0 THEN "dl_remove" ELSE "dl_extract")
    /\ UNCHANGED <<GOOS, GOARCH, environ, osArgs, ret, fs, active, installs>>

\* Mutant: the loop goes on to the next entry after a failed one.
ExtractItem_SkipFailed(p) ==
    /\ p \in active
    /\ pc[p] = "dl_extract"
    /\ \E copyOK \in BOOLEAN :
         LET entries == ArchiveEntries(loc[p].body, loc[p].compiler, GOOS, loc[p].cache)
             r == extractItem(fs, entries[loc[p].index], loc[p].cache, copyOK)
         IN  /\ fs' = r.fs
             /\ loc' = [loc EXCEPT ![p].index = @ + 1,
                                   ![p].err = IF r.err # NoErr THEN r.err ELSE @]
             /\ Goto(p, IF loc[p].index = Len(entries) THEN "dl_remove"
                        ELSE "dl_extract")
    /\ UNCHANGED <<GOOS, GOARCH, environ, osArgs, ret, active, installs>>

\* unzip: one turn of the loop over reader.File.
ExtractItem(p) ==
    /\ p \in active
    /\ pc[p] = "dl_extract"
    /\ \E copyOK \in BOOLEAN :
         LET entries == ArchiveEntries(loc[p].body, loc[p].compiler, GOOS, loc[p].cache)
             r == extractItem(fs, entries[loc[p].index], loc[p].cache, copyOK)
         IN  /\ fs' = r.fs
             /\ IF r.err # NoErr
                THEN /\ loc' = [loc EXCEPT ![p].err = r.err]
                     /\ Goto(p, "dl_remove")
                ELSE /\ loc' = [loc EXCEPT ![p].index = @ + 1]
                     /\ Goto(p, IF loc[p].index = Len(entries) THEN "dl_remove"
                                ELSE "dl_extract")
    /\ UNCHANGED <<GOOS, GOARCH, environ, osArgs, ret, active, installs>>

\* The return of the download: the deferred os.Remove(archive) runs first.
DeferRemove(p) ==
    /\ p \in active
    /\ pc[p] = "dl_remove"
    /\ fs' = Remove(GOOS, fs, loc[p].archive, OpenArchives)
    /\ Goto(p, "dl_close")
    /\ UNCHANGED <<GOOS, GOARCH, environ, osArgs, ret, active, loc, installs>>

\* Mutant: main goes on with the download's path whatever the error.
DeferClose_Ignore(p) ==
    /\ p \in active
    /\ pc[p] = "dl_close"
    /\ loc' = [loc EXCEPT ![p].outOpen = FALSE,
                          ![p].compilerExecutable =
                              DownloadedExec(loc[p].compiler, GOOS, loc[p].cache)]
    /\ installs' = installs \cup
           {[compiler |-> loc[p].compiler, tag |-> loc[p].versionTag,
             body |-> loc[p].body]}
    /\ Goto(p, IF loc[p].compiler = PROTOC_EXECUTABLE THEN "plugin1" ELSE "compile")
    /\ UNCHANGED <<GOOS, GOARCH, environ, osArgs, ret, fs, active>>

\* Then the deferred out.Close(), and main takes the result.
DeferClose(p) ==
    /\ p \in active
    /\ pc[p] = "dl_close"
    /\ IF loc[p].err # NoErr
       THEN /\ loc' = [loc EXCEPT ![p].outOpen = FALSE]
            /\ installs' = installs
            /\ Exit(p, 1)
       ELSE /\ loc' = [loc EXCEPT ![p].outOpen = FALSE,
                                  ![p].compilerExecutable =
                                      DownloadedExec(loc[p].compiler, GOOS, loc[p].cache)]
            /\ installs' = installs \cup
                   {[compiler |-> loc[p].compiler, tag |-> loc[p].versionTag,
                     body |-> loc[p].body]}
            /\ Goto(p, IF loc[p].compiler = PROTOC_EXECUTABLE THEN "plugin1"
                       ELSE "compile")
    /\ UNCHANGED <<GOOS, GOARCH, environ, osArgs, ret, fs, active>>

\* Mutant: the local executable gets the platform suffix too.
CachedExec_Suffixed(compiler, goos, cache) ==
    IF cache = NilStr THEN getExecutableName(goos, compiler)
    ELSE IF compiler = PROTOC_EXECUTABLE
    THEN Join(<<cache, BIN, getExecutableName(goos, PROTOC_EXECUTABLE)>>)
    ELSE Join(<<cache, getExecutableName(goos, FLATC_EXECUTABLE)>>)

\* The executable main runs when nothing is downloaded.
CachedExec(compiler, goos, cache) ==
    IF cache = NilStr THEN compiler
    ELSE IF compiler = PROTOC_EXECUTABLE
    THEN Join(<<cache, BIN, getExecutableName(goos, PROTOC_EXECUTABLE)>>)
    ELSE Join(<<cache, getExecutableName(goos, FLATC_EXECUTABLE)>>)

\* main, when shouldDownload is false.
UseCached(p) ==
    /\ p \in active
    /\ pc[p] = "resolved"
    /\ ~loc[p].shouldDownload
    /\ loc' = [loc EXCEPT ![p].compilerExecutable =
                              CachedExec(loc[p].compiler, GOOS, loc[p].cache)]
    /\ Goto(p, IF loc[p].compiler = PROTOC_EXECUTABLE THEN "plugin1" ELSE "compile")
    /\ UNCHANGED <<GOOS, GOARCH, environ, osArgs, ret, fs, active, installs>>

\* A command started with exec.Command.
Command(kind, cmd, args) == [kind |-> kind, cmd |-> cmd, args |-> args]

\* What a call of ensureGoPackageInstalled met: whether exec.LookPath found
\* the plugin, and what `go install` did ("none" when it was not run).
Ensured(packageName, found, outcome) ==
    [package |-> packageName, found |-> found,
     outcome |-> IF found THEN "none" ELSE outcome]

\* Mutant: the plugin is not looked for again after `go install`.
EnsureGoPackageInstalled_NoRecheck(p) ==
    /\ p \in active
    /\ pc[p] \in {"plugin1", "plugin2"}
    /\ \E found \in BOOLEAN, outcome \in {"fails", "installs", "installs elsewhere"} :
         LET packageName == IF pc[p] = "plugin1" THEN PROTOC_GEN_GO_PACKAGE
                            ELSE PROTOC_GEN_GO_GRPC_PACKAGE
             next == IF pc[p] = "plugin1" THEN "plugin2" ELSE "compile"
             install == Command("install", loc[p].goExec, <<<<"install">>, packageName>>)
             met == Append(loc[p].ensured, Ensured(packageName, found, outcome))
         IN  IF found
             THEN /\ loc' = [loc EXCEPT ![p].ensured = met]
                  /\ Goto(p, next)
             ELSE /\ loc' = [loc EXCEPT ![p].ran = Append(@, install),
                                        ![p].ensured = met,
                                        ![p].err = CASE outcome = "fails" ->
                                                           "error installing package"
                                                     [] OTHER -> NoErr]
                  /\ IF outcome # "fails" THEN Goto(p, next) ELSE Exit(p, 1)
    /\ UNCHANGED <<GOOS, GOARCH, environ, osArgs, ret, fs, active, installs>>

\* ensureGoPackageInstalled for protoc-gen-go, then for protoc-gen-go-grpc.
\* found: whether exec.LookPath finds the plugin in the Go binary directory;
\* outcome: what `go install` does when it is run.
EnsureGoPackageInstalled(p) ==
    /\ p \in active
    /\ pc[p] \in {"plugin1", "plugin2"}
    /\ \E found \in BOOLEAN, outcome \in {"fails", "installs", "installs elsewhere"} :
         LET packageName == IF pc[p] = "plugin1" THEN PROTOC_GEN_GO_PACKAGE
                            ELSE PROTOC_GEN_GO_GRPC_PACKAGE
             next == IF pc[p] = "plugin1" THEN "plugin2" ELSE "compile"
             install == Command("install", loc[p].goExec, <<<<"install">>, packageName>>)
             met == Append(loc[p].ensured, Ensured(packageName, found, outcome))
         IN  IF found
             THEN /\ loc' = [loc EXCEPT ![p].ensured = met]
                  /\ Goto(p, next)
             ELSE /\ loc' = [loc EXCEPT ![p].ran = Append(@, install),
                                        ![p].ensured = met,
                                        ![p].err = CASE outcome = "fails" ->
                                                           "error installing package"
                                                     [] outcome = "installs" -> NoErr
                                                     [] OTHER -> "still could not find package"]
                  /\ IF outcome = "installs" THEN Goto(p, next) ELSE Exit(p, 1)
    /\ UNCHANGED <<GOOS, GOARCH, environ, osArgs, ret, fs, active, installs>>

\* Mutant: main goes on to the go command when the compiler has failed.
RunCompiler_Continue(p) ==
    /\ p \in active
    /\ pc[p] = "compile"
    /\ \E ok \in IF loc[p].compilerExecutable = <<>> THEN {FALSE} ELSE BOOLEAN :
         IF Len(loc[p].compilerArgs) > 0
         THEN /\ loc' = [loc EXCEPT ![p].ran =
                            Append(@, Command("compiler", loc[p].compilerExecutable, loc[p].compilerArgs)),
                                    ![p].err = IF ok THEN NoErr
                                               ELSE "Compiler execution failed"]
              /\ Goto(p, "go")
         ELSE /\ loc' = loc
              /\ Goto(p, "go")
    /\ UNCHANGED <<GOOS, GOARCH, environ, osArgs, ret, fs, active, installs>>

\* main: the compiler command. exec.Command with an empty name cannot run.
RunCompiler(p) ==
    /\ p \in active
    /\ pc[p] = "compile"
    /\ \E ok \in IF loc[p].compilerExecutable = <<>> THEN {FALSE} ELSE BOOLEAN :
         IF Len(loc[p].compilerArgs) > 0
         THEN /\ loc' = [loc EXCEPT ![p].ran =
                            Append(@, Command("compiler", loc[p].compilerExecutable, loc[p].compilerArgs)),
                                    ![p].err = IF ok THEN NoErr
                                               ELSE "Compiler execution failed"]
              /\ IF ok THEN Goto(p, "go") ELSE Exit(p, 1)
         ELSE /\ loc' = loc
              /\ Goto(p, "go")
    /\ UNCHANGED <<GOOS, GOARCH, environ, osArgs, ret, fs, active, installs>>

\* main: the go command, and the end of main.
RunGo(p) ==
    /\ p \in active
    /\ pc[p] = "go"
    /\ \E ok \in BOOLEAN :
         IF Len(loc[p].goArgs) > 0
         THEN /\ loc' = [loc EXCEPT ![p].ran =
                            Append(@, Command("go", loc[p].goExec, loc[p].goArgs)),
                                    ![p].err = IF ok THEN NoErr ELSE "GO execution failed"]
              /\ Exit(p, IF ok THEN 0 ELSE 1)
         ELSE /\ loc' = loc
              /\ Exit(p, 0)
    /\ UNCHANGED <<GOOS, GOARCH, environ, osArgs, ret, fs, active, installs>>

\* protogo is run again, with the same command line and environment.
Reinvoke(p) ==
    /\ p \in active
    /\ pc[p] = "exit"
    /\ loc' = [loc EXCEPT ![p] = InitLoc]
    /\ Goto(p, "start")
    /\ UNCHANGED <<GOOS, GOARCH, environ, osArgs, ret, fs, active, installs>>

Next ==
    \E p \in Procs :
        \/ ParseArgs(p)
        \/ GetProtogoCacheDir(p)
        \/ GetGoExecutable(p)
        \/ GetGoBinaryLocation(p)
        \/ Resolve(p)
        \/ DownloadRequest(p)
        \/ DownloadCreate(p)
        \/ DownloadCopy(p)
        \/ UnzipOpen(p)
        \/ ExtractItem(p)
        \/ DeferRemove(p)
        \/ DeferClose(p)
        \/ UseCached(p)
        \/ EnsureGoPackageInstalled(p)
        \/ RunCompiler(p)
        \/ RunGo(p)
        \/ Reinvoke(p)

Spec == Init /\ [][Next]_vars

(***************************************************************************)
(* The functions of the program called on their own, on inputs drawn from  *)
(* wider sets than main meets in one run.                                  *)
(***************************************************************************)

GET_HTTP == "GET"
GITHUB_API_VERSION == <<"2022-11-28">>
GITHUB_AGENT_NAME == <<"Protogo App">>
AcceptBinary == <<"application/octet-stream">>
AcceptJson == <<"application/vnd.github+json">>

\* Mutant: the two Accept values change places.
makeGETRequestToGitHubAPI_Swapped(url, binary, token) ==
    LET names == {"X-GitHub-Api-Version", "User-Agent", "Accept"}
                    \cup (IF token # Unset THEN {"Authorization"} ELSE {})
    IN  [method |-> GET_HTTP, url |-> url,
         header |-> [n \in names |->
                        CASE n = "Authorization" -> <<"Bearer ">> \o token
                          [] n = "X-GitHub-Api-Version" -> GITHUB_API_VERSION
                          [] n = "User-Agent" -> GITHUB_AGENT_NAME
                          [] OTHER -> IF binary THEN AcceptJson ELSE AcceptBinary]]

\* makeGETRequestToGitHubAPI: the request handed to http.DefaultClient.Do.
\* token: what os.LookupEnv("PROTOGO_GITHUB_BEARER_TOKEN") gives.
makeGETRequestToGitHubAPI(url, binary, token) ==
    LET names == {"X-GitHub-Api-Version", "User-Agent", "Accept"}
                    \cup (IF token # Unset THEN {"Authorization"} ELSE {})
    IN  [method |-> GET_HTTP, url |-> url,
         header |-> [n \in names |->
                        CASE n = "Authorization" -> <<"Bearer ">> \o token
                          [] n = "X-GitHub-Api-Version" -> GITHUB_API_VERSION
                          [] n = "User-Agent" -> GITHUB_AGENT_NAME
                          [] OTHER -> IF binary THEN AcceptBinary ELSE AcceptJson]]

\* The strings a release listing may carry as tag_name.
TagNames == LatestTags \cup { <<"1">> }

\* The values of a JSON object's field.
JsonValues ==
    [type : {"string"}, val : TagNames] \cup { [type |-> "number", val |-> NilStr] }

\* JSON objects, as functions from the keys present to their values.
JsonObjects == UNION { [keys -> JsonValues] : keys \in SUBSET {"tag_name"} }

NoObject == [k \in {} |-> NilStr]

\* What comes back for the metadata request: no answer at all, a body that
\* json.Decoder rejects, or a JSON object.
HttpResponses ==
    { [transport |-> FALSE, decodable |-> FALSE, json |-> NoObject],
      [transport |-> TRUE, decodable |-> FALSE, json |-> NoObject] }
    \cup [transport : {TRUE}, decodable : {TRUE}, json : JsonObjects]

\* The steps of getLatestProtocReleaseTag on a response: the request, the
\* decoding, the lookup of "tag_name", the type assertion.
Decode(response) ==
    IF ~response.transport THEN [kind |-> "transport error", tag |-> NilStr]
    ELSE IF ~response.decodable THEN [kind |-> "undecodable", tag |-> NilStr]
    ELSE IF "tag_name" \notin DOMAIN response.json
    THEN [kind |-> "no tag_name", tag |-> NilStr]
    ELSE IF response.json["tag_name"].type # "string"
    THEN [kind |-> "tag_name not string", tag |-> NilStr]
    ELSE [kind |-> "ok", tag |-> response.json["tag_name"].val]

\* unzip on an archive that opens, with no I/O failure: the loop over the
\* entries from the i-th on, stopped by the first error.
RECURSIVE unzipFrom(_, _, _, _)
unzipFrom(f, entries, dest, i) ==
    IF i > Len(entries) THEN [err |-> NoErr, fs |-> f]
    ELSE LET r == extractItem(f, entries[i], dest, TRUE)
         IN  IF r.err # NoErr THEN r
             ELSE unzipFrom(r.fs, entries, dest, i + 1)

unzip(f, entries, dest) == unzipFrom(f, entries, dest, 1)

OSValues == {"linux", "darwin", "windows", "plan9"}
ArchValues == {"amd64", "386", "s390x", "ppc64le", "arm64", "arm", "riscv64"}
DistroInputs ==
    { Unset, <<"g", "+", "+">>, <<"c", "l", "a", "n", "g">>, <<"g", "c", "c">> }
TokenValues == { Unset, <<>>, <<"t">> }

\* The directory unzip is called on, and the file the release puts there.
FnDest == ProtocCacheDir(Join(<<UserCacheDir, <<"p", "g">> >>), <<"1">>)
FnEntries == ArchiveEntries("release", PROTOC_EXECUTABLE, GOOS, FnDest)
FnFile == ItemPath(FnDest, FnEntries[1].name)

\* The filesystem with an older file where the release puts its executable.
StaleFs == WriteFile(MkdirAll(InitFs, Dir(FnFile)), FnFile, "stale")

InitFn ==
    /\ GOOS \in OSValues
    /\ fs \in {InitFs, StaleFs}
    /\ GOARCH \in ArchValues
    /\ \E d \in DistroInputs, t \in TokenValues :
          environ = [PROTOGO_PROTOC_VERSION |-> Unset, PROTOGO_FLATC_VERSION |-> Unset,
                     PROTOGO_CACHE |-> Unset, PROTOGO_FLATC_DISTRO |-> d,
                     PROTOGO_GITHUB_BEARER_TOKEN |-> t]
    /\ osArgs = << <<"protogo">> >>
    /\ active = {}
    /\ pc = [p \in Procs |-> "start"]
    /\ loc = [p \in Procs |-> InitLoc]
    /\ exitCode = [p \in Procs |-> 0]
    /\ installs = {}
    /\ ret = [fn |-> "none"]

\* Each function is called once, on the inputs of the initial state.
CallGetProtocOSandArch ==
    /\ ret.fn = "none"
    /\ ret' = [fn |-> "getProtocOSandArch", val |-> getProtocOSandArch(GOOS, GOARCH)]
    /\ UNCHANGED <<GOOS, GOARCH, environ, osArgs, fs, active, pc, loc, exitCode, installs>>

CallGetFlatcOSandAddition ==
    /\ ret.fn = "none"
    /\ ret' = [fn |-> "getFlatcOSandAddition",
               val |-> getFlatcOSandAddition(GOOS, GOARCH, environ["PROTOGO_FLATC_DISTRO"])]
    /\ UNCHANGED <<GOOS, GOARCH, environ, osArgs, fs, active, pc, loc, exitCode, installs>>

CallMakeGETRequest ==
    /\ ret.fn = "none"
    /\ \E url \in {LATEST_PROTOC_RELEASE, FlatcBinaryUrl(<<"1">>, FlatcZipName(WINDOWS, <<>>))},
          binary \in BOOLEAN :
         ret' = [fn |-> "makeGETRequestToGitHubAPI", binary |-> binary,
                 val |-> makeGETRequestToGitHubAPI(url, binary,
                                                   environ["PROTOGO_GITHUB_BEARER_TOKEN"])]
    /\ UNCHANGED <<GOOS, GOARCH, environ, osArgs, fs, active, pc, loc, exitCode, installs>>

CallGetLatestReleaseTag ==
    /\ ret.fn = "none"
    /\ \E response \in HttpResponses :
         ret' = [fn |-> "getLatestReleaseTag", arg |-> response,
                 val |-> getLatestReleaseTag(Decode(response))]
    /\ UNCHANGED <<GOOS, GOARCH, environ, osArgs, fs, active, pc, loc, exitCode, installs>>

\* Values of the version variable the resolver is called with.
VersionInputs ==
    { Unset, <<>>, VersionLatest, VersionLocal, <<"v">> \o VersionLatest,
      <<"v">> \o VersionLocal, <<"v", "1">> }

CallGetCache ==
    /\ ret.fn = "none"
    /\ \E compiler \in {PROTOC_EXECUTABLE, FLATC_EXECUTABLE}, value \in VersionInputs :
         \E resp \in MetadataAnswers(value), onPath \in LookPathAnswers(value) :
            ret' = [fn |-> "getCache", compiler |-> compiler, value |-> value,
                    val |-> getCache(compiler, value, Join(<<UserCacheDir, <<"p", "g">> >>),
                                     GOOS, fs, resp, onPath)]
    /\ UNCHANGED <<GOOS, GOARCH, environ, osArgs, fs, active, pc, loc, exitCode, installs>>

\* The other calls leave the filesystem alone: unzip called first, or on
\* what unzip has left, meets every filesystem it can be called on.
CallUnzip ==
    /\ ret.fn \in {"none", "unzip"}
    /\ LET r == unzip(fs, FnEntries, FnDest)
       IN  /\ fs' = r.fs
           /\ ret' = [fn |-> "unzip", before |-> fs, err |-> r.err]
    /\ UNCHANGED <<GOOS, GOARCH, environ, osArgs, active, pc, loc, exitCode, installs>>

NextFn ==
    \/ CallGetProtocOSandArch
    \/ CallGetFlatcOSandAddition
    \/ CallMakeGETRequest
    \/ CallGetLatestReleaseTag
    \/ CallGetCache
    \/ CallUnzip

SpecFn == InitFn /\ [][NextFn]_vars

(***************************************************************************)
(* Two invocations started at the same time, with one command line, one    *)
(* environment and one cache root; each runs main once.                    *)
(***************************************************************************)

InitCo ==
    /\ GOOS = "linux" /\ GOARCH = "amd64"
    /\ environ = [PROTOGO_PROTOC_VERSION |-> <<"1">>, PROTOGO_FLATC_VERSION |-> <<"1">>,
                  PROTOGO_CACHE |-> Unset, PROTOGO_FLATC_DISTRO |-> Unset,
                  PROTOGO_GITHUB_BEARER_TOKEN |-> Unset]
    /\ osArgs \in { << <<"protogo">>, <<"version">>, DASHDASH, c, <<"--version">> >> :
                        c \in {PROTOC_EXECUTABLE, FLATC_EXECUTABLE} }
    /\ fs = InitFs
    /\ active = Procs
    /\ pc = [p \in Procs |-> "start"]
    /\ loc = [p \in Procs |-> InitLoc]
    /\ exitCode = [p \in Procs |-> 0]
    /\ installs = {}
    /\ ret = [fn |-> "none"]

NextCo ==
    \E p \in Procs :
        \/ ParseArgs(p)
        \/ GetProtogoCacheDir(p)
        \/ GetGoExecutable(p)
        \/ GetGoBinaryLocation(p)
        \/ Resolve(p)
        \/ DownloadRequest(p)
        \/ DownloadCreate(p)
        \/ DownloadCopy(p)
        \/ UnzipOpen(p)
        \/ ExtractItem(p)
        \/ DeferRemove(p)
        \/ DeferClose(p)
        \/ UseCached(p)
        \/ EnsureGoPackageInstalled(p)
        \/ RunCompiler(p)
        \/ RunGo(p)

SpecCo == InitCo /\ [][NextCo]_vars

(***************************************************************************)
(* Properties.                                                             *)
(***************************************************************************)

\* The documented cache layout, written out from the cache root:
\* <cacheRoot>/<family>-<tag>, the protoc executable under bin/, the flatc
\* executable directly in it, ".exe" appended on windows.
LayoutExe(family) ==
    IF GOOS = "windows" THEN family \o <<".", "e", "x", "e">> ELSE family

LayoutDir(root, family, tag) == Clean(root \o <<"/">> \o family \o <<"-">> \o tag)

LayoutExec(root, family, tag) ==
    IF family = PROTOC_EXECUTABLE
    THEN Clean(LayoutDir(root, family, tag) \o <<"/", "b", "i", "n", "/">> \o LayoutExe(family))
    ELSE Clean(LayoutDir(root, family, tag) \o <<"/">> \o LayoutExe(family))

\* The resolver has just returned a concrete tag to main.
Resolved(p) == p \in active /\ pc[p] = "resolved" /\ loc[p].cache # NilStr

\* The expected executable path of the version process p resolved.
ExpectedExec(p) == LayoutExec(loc[p].protogoCache, loc[p].compiler, loc[p].versionTag)

\* The value of the version variable of the compiler process p was asked for.
VersionValue(p) == environ[VersionKey(loc[p].compiler)]

\* The version variable holds an explicit tag.
Pinned(p) == VersionRequest(VersionValue(p)) \notin {VersionLatest, VersionLocal}

\* Path a is dir itself or lies below it.
Within(a, dir) ==
    LET sa == Segs(a)
        sd == Segs(dir)
    IN  Len(sd) <= Len(sa) /\ SubSeq(sa, 1, Len(sd)) = sd

\* C1: for both families, when the request resolves to a concrete tag the
\* resolver returns needsDownload = true if and only if nothing exists at
\* the expected executable path; an existing regular file there gives
\* needsDownload = false.
C1_NeedsDownloadIffAbsent ==
    \A p \in Procs :
        Resolved(p) => (loc[p].shouldDownload <=> ~Exists(fs, ExpectedExec(p)))

\* The step is a turn of p's extraction loop.
ExtractStep(p) == pc[p] = "dl_extract" /\ loc'[p] # loc[p]

\* The entry p's extraction loop is at.
CurrentEntry(p) ==
    ArchiveEntries(loc[p].body, loc[p].compiler, GOOS, loc[p].cache)[loc[p].index]

\* C2: unzip creates or writes files and directories only inside destDir,
\* and an entry whose resolved path lies outside destDir makes it return an
\* error.
C2_UnzipStaysInDest ==
    [][\A p \in Procs :
          ExtractStep(p) =>
              /\ \A a \in DOMAIN fs' :
                    (a \notin DOMAIN fs \/ fs'[a] # fs[a]) => Within(a, Abs(loc[p].cache))
              /\ ~Within(ItemPath(loc[p].cache, CurrentEntry(p).name), Abs(loc[p].cache))
                    => loc'[p].err # NoErr]_vars

\* Before this invocation of p began, an invocation had downloaded and
\* unpacked the release archive of the same compiler and version.
InstalledBefore(p) ==
    \E i \in loc[p].installsBefore :
        /\ i.compiler = loc[p].compiler
        /\ i.body = "release"
        /\ i.tag = Normalize(VersionValue(p))

\* C3: after a successful download and unpacking of a pinned version, every
\* later invocation for the same version resolves needsDownload = false and
\* makes no network request, for protoc and for flatc.
C3_InstalledThenNoNetwork ==
    \A p \in Procs :
        (p \in active /\ loc[p].compiler # NONE_EXECUTABLE /\ Pinned(p) /\ InstalledBefore(p))
            => /\ loc[p].requests = <<>>
               /\ pc[p] = "resolved" => ~loc[p].shouldDownload

\* C3 (reached): a later invocation resolves a version installed before.
C3_Reached ==
    \E p \in Procs :
        /\ p \in active /\ pc[p] = "resolved" /\ Pinned(p) /\ InstalledBefore(p)

\* A tag with one leading "v" removed.
StripOneV(t) == IF Len(t) > 0 /\ t[1] = "v" THEN Tail(t) ELSE t

\* C4 (as claimed): the normalization is idempotent on every tag, maps
\* v1 and 1 to 1, and the tag of the install directory never starts with v.
C4_NormalizeIdempotent ==
    \A p \in Procs :
        Resolved(p) =>
            LET n == loc[p].versionTag
            IN  /\ Normalize(n) = n
                /\ loc[p].rawTag \in {<<"v", "1">>, <<"1">>} => n = <<"1">>
                /\ Base(loc[p].cache) = loc[p].compiler \o <<"-">> \o n
                /\ ~HasPrefix(n, <<"v">>)

\* C4 (amended): the normalization removes exactly one leading v; it maps
\* v1 and 1 to 1; it is idempotent, and the tag of the install directory
\* does not start with v, exactly when the tag does not start with vv.
C4_NormalizeStripsOneV ==
    \A p \in Procs :
        Resolved(p) =>
            LET t == loc[p].rawTag
                n == loc[p].versionTag
            IN  /\ n = StripOneV(t)
                /\ t \in {<<"v", "1">>, <<"1">>} => n = <<"1">>
                /\ Base(loc[p].cache) = loc[p].compiler \o <<"-">> \o n
                /\ (Normalize(n) = n) <=> ~HasPrefix(t, <<"v", "v">>)
                /\ HasPrefix(n, <<"v">>) <=> HasPrefix(t, <<"v", "v">>)

C4_Witness ==
    \E p \in Procs : Resolved(p) /\ loc[p].rawTag = <<"v", "1">>

\* p is in the download, between the creation of the archive and the return.
InDownload(p) == pc[p] \in {"dl_copy", "dl_unzip", "dl_extract", "dl_remove", "dl_close"}

\* C5: once the download has created the temporary archive, the file no
\* longer exists when the download has returned.
C5_ArchiveRemovedOnReturn ==
    \A p \in Procs :
        (loc[p].created /\ ~InDownload(p)) => ~Exists(fs, loc[p].archive)

LatestUrl(compiler) ==
    IF compiler = PROTOC_EXECUTABLE THEN LATEST_PROTOC_RELEASE ELSE LATEST_FLATC_RELEASE

LocalLookup(p) ==
    /\ p \in active
    /\ VersionRequest(VersionValue(p)) = VersionLocal
    /\ loc[p].lookups = 1

\* C7: for the request "local", an executable found on PATH gives the tag
\* "local", no install directory, needsDownload = false and no error,
\* without network request or cache probe, and main runs the bare name;
\* none found gives an error, no tag, no directory, and no download.
C7_LocalUsesPath ==
    \A p \in Procs :
        LocalLookup(p) =>
            /\ loc[p].cache = NilStr /\ ~loc[p].shouldDownload
            /\ loc[p].requests = <<>> /\ loc[p].probed = NilStr
            /\ loc[p].archive = NilStr /\ ~loc[p].created
            /\ IF loc[p].onPath
               THEN /\ loc[p].versionTag = VersionLocal
                    /\ pc[p] = "resolved" => loc[p].err = NoErr
                    /\ pc[p] # "resolved" => loc[p].compilerExecutable = loc[p].compiler
                    /\ \A i \in DOMAIN loc[p].ran :
                          loc[p].ran[i].kind = "compiler"
                              => loc[p].ran[i].cmd = loc[p].compiler
               ELSE /\ pc[p] = "exit" /\ exitCode[p] = 1
                    /\ loc[p].err = "executable couldn't be found"
                    /\ loc[p].versionTag = NilStr
                    /\ loc[p].ran = <<>>

C7_Witness ==
    \E p \in Procs :
        /\ LocalLookup(p) /\ loc[p].onPath
        /\ \E i \in DOMAIN loc[p].ran : loc[p].ran[i].kind = "compiler"

\* p is in main after the resolver has returned without error.
PastResolve(p) ==
    pc[p] \in {"resolved", "dl_create", "dl_copy", "dl_unzip", "dl_extract", "dl_remove",
               "dl_close", "plugin1", "plugin2", "compile", "go"}

\* The metadata requests p has made.
MetadataRequests(p) == SelectSeq(loc[p].requests, LAMBDA r : ~r.binary)

\* C8: with the version variable unset the resolver makes exactly one
\* metadata request, to the family's release listing; the tag v31.0 gives
\* the tag 31.0 and the install directory <cacheRoot>/<family>-31.0.
C8_UnsetMeansLatest ==
    \A p \in Procs :
        (p \in active /\ loc[p].compiler # NONE_EXECUTABLE /\ VersionValue(p) = Unset)
            => /\ Len(MetadataRequests(p)) <= 1
               /\ (PastResolve(p) \/ loc[p].err = "latest version tag couldn't be resolved")
                     => /\ MetadataRequests(p) = <<Request(LatestUrl(loc[p].compiler), FALSE)>>
                        /\ loc[p].requests[1] = Request(LatestUrl(loc[p].compiler), FALSE)
               /\ PastResolve(p)
                     => /\ loc[p].versionTag = StripOneV(loc[p].rawTag)
                        /\ loc[p].cache = LayoutDir(loc[p].protogoCache, loc[p].compiler,
                                                    loc[p].versionTag)
                        /\ loc[p].rawTag = <<"v", "3", "1", ".", "0">>
                              => /\ loc[p].versionTag = <<"3", "1", ".", "0">>
                                 /\ loc[p].cache =
                                       LayoutDir(loc[p].protogoCache, loc[p].compiler,
                                                 <<"3", "1", ".", "0">>)

C8_Witness ==
    \E p \in Procs :
        /\ Resolved(p) /\ VersionValue(p) = Unset
        /\ loc[p].rawTag = <<"v", "3", "1", ".", "0">>

C10_ExecutableUnderBin ==
    \A p \in Procs :
        (/\ p \in active /\ loc[p].created /\ loc[p].body = "release"
         /\ pc[p] \in {"plugin1", "plugin2", "compile", "go"})
            => LET bin == Clean(LayoutDir(loc[p].protogoCache, loc[p].compiler,
                                          loc[p].versionTag) \o <<"/", "b", "i", "n">>)
               IN  /\ Dir(loc[p].compilerExecutable) = bin
                   /\ Exists(fs, bin \o <<"/">> \o LayoutExe(loc[p].compiler))

\* Main has taken the executable of an installed version: from the download
\* it has just made, or from the cache.
FreshInstall(p) ==
    /\ p \in active /\ loc[p].created /\ loc[p].err = NoErr
    /\ pc[p] \in {"plugin1", "plugin2", "compile", "go"}

CacheHit(p) ==
    /\ p \in active /\ ~loc[p].created /\ loc[p].cache # NilStr
    /\ pc[p] \in {"plugin1", "plugin2", "compile", "go"}

\* C11: the executable path the download returns after a successful
\* install, the path the resolver probed, and the path main uses on a cache
\* hit are the same, so a fresh install and a cache hit of one version
\* execute the same file.
C11_OneExecutablePath ==
    \A p \in Procs :
        /\ (FreshInstall(p) \/ CacheHit(p))
              => /\ loc[p].compilerExecutable = loc[p].probed
                 /\ \A i \in DOMAIN loc[p].ran :
                       loc[p].ran[i].kind = "compiler" => loc[p].ran[i].cmd = loc[p].probed
        /\ (pc[p] = "resolved" /\ loc[p].cache # NilStr)
              => /\ DownloadedExec(loc[p].compiler, GOOS, loc[p].cache) = loc[p].probed
                 /\ CachedExec(loc[p].compiler, GOOS, loc[p].cache) = loc[p].probed

\* A cache hit of a version installed by an earlier invocation.
C11_Witness ==
    \E p \in Procs :
        /\ CacheHit(p) /\ InstalledBefore(p)
        /\ \E i \in DOMAIN loc[p].ran : loc[p].ran[i].kind = "compiler"

\* The documented table of protoc fragments: (OS, architecture) -> fragment.
ProtocTable ==
    [pair \in { <<"linux", "amd64">>, <<"linux", "386">>, <<"linux", "s390x">>,
                <<"linux", "ppc64le">>, <<"linux", "arm64">>, <<"darwin", "amd64">>,
                <<"darwin", "arm64">>, <<"windows", "386">>, <<"windows", "arm">>,
                <<"windows", "amd64">>, <<"windows", "arm64">> } |->
        CASE pair = <<"linux", "amd64">> -> <<"linux-x86_64">>
          [] pair = <<"linux", "386">> -> <<"linux-x86_32">>
          [] pair = <<"linux", "s390x">> -> <<"linux-s390_64">>
          [] pair = <<"linux", "ppc64le">> -> <<"linux-ppcle_64">>
          [] pair = <<"linux", "arm64">> -> <<"linux-aarch_64">>
          [] pair[1] = "darwin" -> <<"osx-universal_binary">>
          [] pair \in { <<"windows", "386">>, <<"windows", "arm">> } -> <<"win32">>
          [] OTHER -> <<"win64">>]

\* C12: getProtocOSandArch returns the documented fragment, and no error,
\* for every pair of the table, and a fragment without error for these
\* pairs only.
C12_ProtocFragments ==
    ret.fn = "getProtocOSandArch" =>
        IF <<GOOS, GOARCH>> \in DOMAIN ProtocTable
        THEN ret.val.platform = ProtocTable[<<GOOS, GOARCH>>] /\ ret.val.err = NoErr
        ELSE ret.val.platform = NilStr /\ ret.val.err # NoErr

C12_Witness ==
    /\ ret.fn = "getProtocOSandArch"
    /\ GOOS = "windows" /\ GOARCH = "arm"
    /\ ret.val.platform = <<"win32">>

\* C13: on linux getFlatcOSandAddition returns Linux with the addition
\* .clang++-18 exactly when PROTOGO_FLATC_DISTRO is clang and .g++-13 in
\* every other case; on darwin/amd64 MacIntel, on darwin/arm64 Mac, on
\* windows Windows, each with an empty addition.
C13_FlatcFragments ==
    ret.fn = "getFlatcOSandAddition" =>
        LET distro == environ["PROTOGO_FLATC_DISTRO"]
            r == ret.val
        IN  /\ GOOS = "linux" =>
                  /\ r.system = <<"Linux">> /\ r.err = NoErr
                  /\ r.addition = IF distro = <<"c", "l", "a", "n", "g">>
                                  THEN <<".clang++-18">> ELSE <<".g++-13">>
            /\ (GOOS = "darwin" /\ GOARCH = "amd64") =>
                  r.system = <<"MacIntel">> /\ r.addition = <<>> /\ r.err = NoErr
            /\ (GOOS = "darwin" /\ GOARCH = "arm64") =>
                  r.system = <<"Mac">> /\ r.addition = <<>> /\ r.err = NoErr
            /\ GOOS = "windows" =>
                  r.system = <<"Windows">> /\ r.addition = <<>> /\ r.err = NoErr

\* The pairs the flatc table has a row for: linux and windows with any
\* architecture, darwin with amd64 and arm64.
FlatcSupported(os, arch) ==
    \/ os \in {"linux", "windows"}
    \/ os = "darwin" /\ arch \in {"amd64", "arm64"}

\* C14: for both platform identifiers the unsupported-OS error is returned
\* exactly when the OS is outside {linux, darwin, windows}, the
\* unsupported-architecture error exactly when the OS is recognized and the
\* architecture is not in its table; the two are different errors, never
\* both, and no fragment comes with an error.
C14_PlatformErrors ==
    ret.fn \in {"getProtocOSandArch", "getFlatcOSandAddition"} =>
        LET recognized == GOOS \in {"linux", "darwin", "windows"}
            inTable == IF ret.fn = "getProtocOSandArch"
                       THEN <<GOOS, GOARCH>> \in DOMAIN ProtocTable
                       ELSE FlatcSupported(GOOS, GOARCH)
            fragment == IF ret.fn = "getProtocOSandArch" THEN ret.val.platform
                        ELSE ret.val.system
            err == ret.val.err
        IN  /\ err \in {NoErr, "unsupported OS", "unsupported architecture"}
            /\ (err = "unsupported OS") <=> ~recognized
            /\ (err = "unsupported architecture") <=> (recognized /\ ~inTable)
            /\ (err = NoErr) <=> (fragment # NilStr)

C14_Witness ==
    /\ ret.fn = "getFlatcOSandAddition"
    /\ GOOS = "darwin" /\ GOARCH = "386"
    /\ ret.val.err = "unsupported architecture" /\ ret.val.system = NilStr

\* C15: every request makeGETRequestToGitHubAPI builds is a GET with the
\* fixed User-Agent and X-GitHub-Api-Version headers; it has the header
\* Authorization: Bearer <token> if and only if PROTOGO_GITHUB_BEARER_TOKEN
\* is in the environment; its Accept header is application/octet-stream for a
\* binary request and application/vnd.github+json otherwise.
C15_RequestHeaders ==
    ret.fn = "makeGETRequestToGitHubAPI" =>
        LET token == environ["PROTOGO_GITHUB_BEARER_TOKEN"]
            header == ret.val.header
        IN  /\ ret.val.method = "GET"
            /\ "User-Agent" \in DOMAIN header /\ header["User-Agent"] = <<"Protogo App">>
            /\ "X-GitHub-Api-Version" \in DOMAIN header
            /\ header["X-GitHub-Api-Version"] = <<"2022-11-28">>
            /\ ("Authorization" \in DOMAIN header) <=> (token # Unset)
            /\ token # Unset => header["Authorization"] = <<"Bearer ">> \o token
            /\ "Accept" \in DOMAIN header
            /\ header["Accept"] = IF ret.binary THEN <<"application/octet-stream">>
                                  ELSE <<"application/vnd.github+json">>

C15_Witness ==
    /\ ret.fn = "makeGETRequestToGitHubAPI"
    /\ ret.binary
    /\ environ["PROTOGO_GITHUB_BEARER_TOKEN"] = <<"t">>
    /\ "Authorization" \in DOMAIN ret.val.header

\* The way a metadata response fails, "none" when it does not.
FailureOf(response) ==
    CASE ~response.transport -> "transport"
      [] ~response.decodable -> "undecodable"
      [] "tag_name" \notin DOMAIN response.json -> "absent"
      [] response.json["tag_name"].type # "string" -> "not a string"
      [] OTHER -> "none"

\* C16: the latest-tag lookup returns the tag_name string of the response
\* unchanged, leading v included; it returns an error and no tag when the
\* transport fails, the body cannot be decoded, tag_name is absent or is
\* not a string, and the four failures have different messages.
C16_LatestTag ==
    ret.fn = "getLatestReleaseTag" =>
        /\ IF FailureOf(ret.arg) = "none"
           THEN ret.val.tag = ret.arg.json["tag_name"].val /\ ret.val.err = NoErr
           ELSE ret.val.tag = NilStr /\ ret.val.err # NoErr
        /\ \A other \in HttpResponses :
              FailureOf(other) # FailureOf(ret.arg)
                  => getLatestReleaseTag(Decode(other)).err # ret.val.err

C16_Witness ==
    /\ ret.fn = "getLatestReleaseTag"
    /\ ret.val.err = NoErr
    /\ ret.val.tag = <<"v", "3", "1", ".", "0">>

\* Where main is while the compiler is resolved and installed.
InstallPcs ==
    {"resolve", "resolved", "dl_create", "dl_copy", "dl_unzip", "dl_extract",
     "dl_remove", "dl_close"}

\* The step is one of process p.
StepOf(p) == pc'[p] # pc[p] \/ loc'[p] # loc[p]

\* No command of the given kinds among those run.
NoneRan(ran, kinds) == \A i \in DOMAIN ran : ran[i].kind \notin kinds

\* No request made twice.
NoRetry(requests) ==
    \A i, j \in DOMAIN requests : requests[i] = requests[j] => i = j

\* C17: when a step of resolving or installing the compiler fails, no usable
\* result is returned (after a failed latest lookup: no tag, no directory,
\* needsDownload = false), no request is made again, and the invocation
\* ends with status 1 through the deferred calls only, with neither the
\* compiler command nor the go command run; an ended invocation does
\* nothing more.
C17_FailureAborts ==
    [][\A p \in Procs :
          /\ (StepOf(p) /\ pc[p] \in InstallPcs) =>
                /\ NoRetry(loc'[p].requests)
                /\ loc'[p].err # NoErr =>
                      /\ pc'[p] \in {"dl_remove", "dl_close", "exit"}
                      /\ pc'[p] = "exit" => exitCode'[p] = 1
                      /\ loc'[p].compilerExecutable = <<>>
                      /\ NoneRan(loc'[p].ran, {"compiler", "go"})
                      /\ pc[p] = "resolve" =>
                            /\ loc'[p].versionTag = NilStr
                            /\ loc'[p].cache = NilStr
                            /\ ~loc'[p].shouldDownload
          /\ (StepOf(p) /\ pc[p] = "exit") =>
                pc'[p] = "start" /\ loc'[p] = InitLoc]_vars

C17_Witness ==
    \E p \in Procs :
        /\ pc[p] = "exit" /\ exitCode[p] = 1
        /\ loc[p].err = "error opening archive reader"
        /\ Len(loc[p].requests) = 1

\* The position in the command line of the separator: the first "--" after
\* the program name (0 when there is none), and the two argument groups.
Separator ==
    LET at == { i \in 2..Len(osArgs) : osArgs[i] = DASHDASH }
    IN  IF at = {} THEN 0 ELSE CHOOSE i \in at : \A j \in at : i <= j

GoGroup == SubSeq(osArgs, 2, Separator - 1)
CompilerGroup == SubSeq(osArgs, Separator + 2, Len(osArgs))

\* The positions in ran of the commands of a kind.
RanAt(p, kind) == { i \in DOMAIN loc[p].ran : loc[p].ran[i].kind = kind }

\* C18: in `<goArgs> -- <compiler> <compilerArgs>`, split at the first "--",
\* the compiler command is run only if compilerArgs is not empty and the go
\* command only if goArgs is not empty; the go command is started after the
\* compiler command has ended, and not at all when it has failed.
C18_CompilerThenGo ==
    \A p \in active :
        /\ (pc[p] # "start" /\ Separator # 0) =>
              loc[p].goArgs = GoGroup /\ loc[p].compilerArgs = CompilerGroup
        /\ \A i \in RanAt(p, "compiler") :
              /\ CompilerGroup # <<>> /\ loc[p].ran[i].args = CompilerGroup
              /\ RanAt(p, "compiler") = {i}
        /\ \A i \in RanAt(p, "go") :
              /\ GoGroup # <<>> /\ loc[p].ran[i].args = GoGroup
              /\ RanAt(p, "go") = {i} /\ i = Len(loc[p].ran)
              /\ CompilerGroup # <<>> => \E j \in RanAt(p, "compiler") : j < i
        /\ loc[p].err = "Compiler execution failed" =>
              pc[p] = "exit" /\ exitCode[p] = 1 /\ RanAt(p, "go") = {}
        /\ (pc[p] = "exit" /\ exitCode[p] = 0 /\ Separator # 0 /\ loc[p].err = NoErr) =>
              /\ CompilerGroup # <<>> => RanAt(p, "compiler") # {}
              /\ GoGroup # <<>> => RanAt(p, "go") # {}

C18_Witness ==
    \E p \in active :
        /\ pc[p] = "exit" /\ exitCode[p] = 0
        /\ \E i \in RanAt(p, "compiler"), j \in RanAt(p, "go") : i < j

\* The entries of the archive p is unpacking, and where the i-th goes.
Entries(p) == ArchiveEntries(loc[p].body, loc[p].compiler, GOOS, loc[p].cache)
EntryPath(p, i) == ItemPath(loc[p].cache, Entries(p)[i].name)

\* Path a is the same in fs and fs'.
Untouched(a) ==
    /\ a \in DOMAIN fs <=> a \in DOMAIN fs'
    /\ a \in DOMAIN fs => fs'[a] = fs[a]

\* C19: unzip takes the entries in archive order and stops at the first one
\* that fails: it returns an error, the entries before it stay extracted,
\* and no entry after it is created.
C19_StopsAtFirstFailure ==
    [][\A p \in Procs :
          /\ ExtractStep(p) =>
                LET k == loc[p].index
                IN  /\ k \in 1..Len(Entries(p))
                    /\ \A j \in 1..(k - 1) :
                          /\ Exists(fs, EntryPath(p, j))
                          /\ Untouched(EntryPath(p, j))
                    /\ loc'[p].err = NoErr =>
                          /\ loc'[p].index = k + 1
                          /\ Exists(fs', EntryPath(p, k))
                          /\ pc'[p] = IF k = Len(Entries(p)) THEN "dl_remove"
                                      ELSE "dl_extract"
                    /\ loc'[p].err # NoErr =>
                          /\ loc'[p].index = k /\ pc'[p] = "dl_remove"
                          /\ \A j \in (k + 1)..Len(Entries(p)) :
                                Untouched(EntryPath(p, j))
          /\ (StepOf(p) /\ pc[p] \in {"dl_remove", "dl_close"}) =>
                \A a \in DOMAIN fs \cup DOMAIN fs' :
                    a # Abs(loc[p].archive) => Untouched(a)]_vars

C19_Witness ==
    \E p \in Procs :
        /\ pc[p] = "dl_remove" /\ loc[p].body = "slip" /\ loc[p].index = 2
        /\ loc[p].err = "error extracting path"
        /\ Exists(fs, EntryPath(p, 1))
        /\ ~Exists(fs, EntryPath(p, 3))

\* Where an entry stored under name belongs: destDir joined with the name.
Joined(destDir, name) == Clean(destDir \o <<"/">> \o name)

\* C20: extracting an archive with one file entry and one directory entry
\* produces both at destDir joined with their names, the file holding the
\* entry's bytes whatever was at its path before; extracting the archive
\* again changes nothing.
C20_ExtractRoundTrip ==
    [][ret'.fn = "unzip" =>
          LET file == Joined(FnDest, FnEntries[1].name)
              dir == Joined(FnDest, FnEntries[2].name)
          IN  /\ ret'.err = NoErr
              /\ file \in DOMAIN fs' /\ fs'[file] = [kind |-> "file", data |-> FnEntries[1].data]
              /\ dir \in DOMAIN fs' /\ fs'[dir].kind = "dir"
              /\ \A a \in DOMAIN fs : a \in DOMAIN fs'
              /\ ret.fn = "unzip" => fs' = fs]_vars

\* The archive has been extracted over its own extraction.
C20_Witness ==
    /\ ret.fn = "unzip" /\ ret.err = NoErr
    /\ ret.before = fs
    /\ fs[FnFile].data = "protoc binary"

\* Processes p and q install the same compiler version into the same
\* directory of the same cache root.
SameTarget(p, q) ==
    /\ loc[p].compiler = loc[q].compiler /\ loc[p].versionTag = loc[q].versionTag
    /\ loc[p].protogoCache = loc[q].protogoCache /\ loc[p].cache = loc[q].cache

\* C21: nothing excludes two invocations from installing the same version
\* at once: the resolver returns needsDownload = true whenever nothing is at
\* the path it probes, whatever the other invocation is doing, and no step
\* of one invocation waits for, stops or redirects the other.
C21_NoMutualExclusion ==
    [][\A p \in Procs :
          StepOf(p) =>
              /\ \A q \in Procs \ {p} : pc'[q] = pc[q] /\ loc'[q] = loc[q]
              /\ (pc[p] = "resolve" /\ pc'[p] = "resolved" /\ loc'[p].cache # NilStr) =>
                    (~Exists(fs, loc'[p].probed) => loc'[p].shouldDownload)
              /\ (pc[p] = "resolved" /\ loc[p].shouldDownload) =>
                    pc'[p] \in {"dl_create", "exit"}
              /\ pc[p] = "dl_create" => pc'[p] \in {"dl_copy", "exit"}]_vars

\* Both invocations have resolved needsDownload = true for one missing
\* version and are unpacking into the one install directory.
C21_Witness ==
    /\ SameTarget(1, 2)
    /\ \A p \in Procs :
          /\ pc[p] = "dl_extract" /\ loc[p].shouldDownload /\ loc[p].body = "release"
          /\ loc[p].index = 1

\* Process q is unpacking an archive into the install directory of p.
ExtractingFor(q, p) ==
    /\ q # p /\ pc[q] \in {"dl_unzip", "dl_extract"}
    /\ loc[p].cache # NilStr /\ loc[q].cache = loc[p].cache

\* C22: under concurrent invocations for one version and cache root, no
\* invocation resolves needsDownload = false for, or runs, an executable
\* while another invocation is still extracting it.
C22_OthersSeeFinalState ==
    \A p \in active :
        \A q \in active :
            ExtractingFor(q, p) =>
                /\ ~(pc[p] = "resolved" /\ ~loc[p].shouldDownload)
                /\ RanAt(p, "compiler") = {}

\* Process p is between the creation and the removal of its temporary
\* archive.
HoldsArchive(p) == pc[p] \in {"dl_copy", "dl_unzip", "dl_extract", "dl_remove"}

\* C23: while one invocation is between creating and removing its temporary
\* archive, no step of another invocation creates, truncates, writes or
\* removes a file at that path.
C23_ArchiveOwnedByOne ==
    [][\A p \in Procs :
          \A q \in Procs \ {p} :
              (HoldsArchive(p) /\ StepOf(q)) => Untouched(Abs(loc[p].archive))]_vars

\* An extraction that was aborted when io.Copy failed has left a file,
\* created and never filled, at the expected executable path of p.
LeftIncomplete(p) ==
    /\ Exists(fs, ExpectedExec(p))
    /\ fs[Abs(ExpectedExec(p))] = FileEntry("")

\* C24: when an aborted extraction has left a file at the expected
\* executable path, every later resolve of the version returns
\* needsDownload = false, for protoc and for flatc.
C24_PartialInstallKept ==
    \A p \in Procs :
        (Resolved(p) /\ LeftIncomplete(p)) => ~loc[p].shouldDownload

\* C25: whatever form the destination path has (absolute, relative, relative
\* with leading ".."), the containment guard refuses an entry only if the
\* path it resolves to lies outside destDir.
C25_GuardAcceptsInside ==
    [][\A p \in Procs :
          (ExtractStep(p) /\ loc'[p].err = "error extracting path") =>
              ~Within(ItemPath(loc[p].cache, CurrentEntry(p).name), Abs(loc[p].cache))]_vars

\* C26: in the download the write handle of the temporary archive is closed
\* before the archive is opened for unpacking and before it is removed.
C26_ClosedBeforeUnpackAndRemove ==
    \A p \in Procs :
        /\ pc[p] \in {"dl_unzip", "dl_extract"} => ~loc[p].outOpen
        /\ pc[p] = "dl_close" => ~loc[p].outOpen

\* The probe of the resolver of p's compiler misses at path exec.
ProbeMisses(p, f, exec) ==
    IF loc[p].compiler = PROTOC_EXECUTABLE THEN ProtocProbeMisses(f, exec)
    ELSE FlatcProbeMisses(f, exec)

\* C27: when the body received for the binary is no ZIP archive, the
\* download fails in the unpack step; it creates nothing under the install
\* directory, nor the directory; the invocation ends with status 1 and a
\* following resolve of the version finds nothing at the path it probes.
C27_NotZipInstallsNothing ==
    [][\A p \in Procs :
          /\ (StepOf(p) /\ pc[p] = "dl_unzip" /\ loc[p].body = "notzip") =>
                /\ loc'[p].err = "error opening archive reader"
                /\ pc'[p] = "dl_remove" /\ fs' = fs
          /\ (StepOf(p) /\ loc[p].err = "error opening archive reader") =>
                /\ pc[p] \in {"dl_remove", "dl_close", "exit"}
                /\ \A a \in DOMAIN fs \cup DOMAIN fs' :
                      a # Abs(loc[p].archive) => Untouched(a)
                /\ installs' = installs
                /\ pc[p] = "dl_close" =>
                      /\ pc'[p] = "exit" /\ exitCode'[p] = 1
                      /\ loc[p].shouldDownload
                      /\ ProbeMisses(p, fs', loc[p].probed)]_vars

C27_Witness ==
    \E p \in Procs :
        /\ pc[p] = "exit" /\ loc[p].err = "error opening archive reader"
        /\ loc[p].body = "notzip"
        /\ ~Exists(fs, loc[p].cache)
        /\ ProbeMisses(p, fs, loc[p].probed)

\* C28: the sentinels are matched exactly, before the normalization, and
\* only an unset variable defaults to latest: the empty string, vlatest and
\* vlocal are pinned tags, with the install directories <family>-,
\* <family>-latest and <family>-local, no metadata request and no PATH
\* lookup; the resolver returns no error for a pinned tag.
C28_SentinelsExact ==
    ret.fn = "getCache" =>
        LET v == ret.value
            r == ret.val
            root == Join(<<UserCacheDir, <<"p", "g">> >>)
        IN  /\ (r.requests = 1) <=> (v \in {Unset, VersionLatest})
            /\ (r.lookups = 1) <=> (v = VersionLocal)
            /\ r.requests \in {0, 1} /\ r.lookups \in {0, 1}
            /\ v \notin {Unset, VersionLatest, VersionLocal} =>
                  /\ r.err = NoErr
                  /\ r.tag = StripOneV(v)
                  /\ r.cache = LayoutDir(root, ret.compiler, StripOneV(v))
            /\ v = <<>> => Base(r.cache) = ret.compiler \o <<"-">>
            /\ v = <<"v">> \o VersionLatest =>
                  Base(r.cache) = ret.compiler \o <<"-", "l", "a", "t", "e", "s", "t">>
            /\ v = <<"v">> \o VersionLocal =>
                  Base(r.cache) = ret.compiler \o <<"-", "l", "o", "c", "a", "l">>

C28_Witness ==
    /\ ret.fn = "getCache" /\ ret.compiler = FLATC_EXECUTABLE
    /\ ret.value = <<"v", "l", "o", "c", "a", "l">>
    /\ ret.val.tag = VersionLocal /\ ret.val.lookups = 0 /\ ret.val.shouldDownload

\* The token after the separator, NilStr when there is none.
CompilerToken ==
    IF Separator # 0 /\ Separator < Len(osArgs) THEN osArgs[Separator + 1] ELSE NilStr

\* The step is main's look at the command line, and it has no effect
\* outside the process: no directory made, no request, no command started.
StartStep(p) == StepOf(p) /\ pc[p] = "start"

NoEffects(p) ==
    /\ fs' = fs
    /\ loc'[p].requests = <<>> /\ loc'[p].ran = <<>>
    /\ loc'[p].protogoCache = NilStr /\ loc'[p].goExec = NilStr /\ loc'[p].goBin = NilStr

\* C29 (as claimed): without "--" main prints the help and exits with
\* status 0; with a token after the first "--" that is neither protoc nor
\* flatc it exits with status 1; in both cases before the cache directory is
\* made, before any request and before any command is started.
C29_EarlyExits ==
    [][\A p \in Procs :
          StartStep(p) =>
              /\ NoEffects(p)
              /\ Separator = 0 => pc'[p] = "exit" /\ exitCode'[p] = 0
              /\ CompilerToken \notin {NilStr, PROTOC_EXECUTABLE, FLATC_EXECUTABLE} =>
                    pc'[p] = "exit" /\ exitCode'[p] = 1]_vars

\* C29 (amended): as claimed for a token that is not the empty string; the
\* empty string is taken for no compiler, and main goes on.
C29_EarlyExitsNonEmpty ==
    [][\A p \in Procs :
          StartStep(p) =>
              /\ NoEffects(p)
              /\ Separator = 0 =>
                    pc'[p] = "exit" /\ exitCode'[p] = 0 /\ loc'[p].err = "help"
              /\ CompilerToken \notin {NilStr, <<>>, PROTOC_EXECUTABLE, FLATC_EXECUTABLE} =>
                    pc'[p] = "exit" /\ exitCode'[p] = 1
              /\ (Separator # 0
                     /\ CompilerToken \in {NilStr, <<>>, PROTOC_EXECUTABLE, FLATC_EXECUTABLE}) =>
                    pc'[p] = "cache"]_vars

\* An invocation has ended on an unknown compiler name, nothing touched.
C29_Witness ==
    \E p \in Procs :
        /\ pc[p] = "exit" /\ exitCode[p] = 1 /\ loc[p].err = "unknown compiler"
        /\ CompilerToken = <<"gcc">> /\ fs = InitFs

\* The plugins of protoc, in the order main ensures them.
Plugins == << <<"protoc-gen-go">>, <<"protoc-gen-go-grpc">> >>

\* The packages ensured so far by p.
EnsuredNames(l) == [i \in DOMAIN l.ensured |-> l.ensured[i].package]

\* C30: protoc-gen-go and then protoc-gen-go-grpc are ensured if and only if
\* the compiler is protoc, after the compiler has been resolved or
\* downloaded and before the compiler command; `go install` is run only for
\* a plugin that is not found, and the call fails when the plugin is still
\* not found after it.
C30_PluginsForProtoc ==
    [][\A p \in Procs :
          StepOf(p) =>
              /\ pc'[p] \in {"plugin1", "plugin2"} => loc[p].compiler = PROTOC_EXECUTABLE
              /\ pc'[p] = "plugin1" =>
                    /\ pc[p] \in {"resolved", "dl_close"}
                    /\ loc'[p].compilerExecutable # <<>> /\ loc'[p].err = NoErr
                    /\ loc'[p].ensured = <<>> /\ NoneRan(loc'[p].ran, {"install"})
              /\ pc'[p] = "compile" =>
                    /\ EnsuredNames(loc'[p]) =
                          IF loc[p].compiler = PROTOC_EXECUTABLE THEN Plugins ELSE <<>>
                    /\ NoneRan(loc'[p].ran, {"compiler", "go"})
              /\ pc[p] \in {"plugin1", "plugin2"} =>
                    LET n == Len(loc[p].ensured) + 1
                        e == loc'[p].ensured[n]
                        installed == Len(loc'[p].ran) = Len(loc[p].ran) + 1
                    IN  /\ Len(loc'[p].ensured) = n
                        /\ e.package = Plugins[IF pc[p] = "plugin1" THEN 1 ELSE 2]
                        /\ installed <=> ~e.found
                        /\ installed => loc'[p].ran[Len(loc'[p].ran)].kind = "install"
                        /\ ~installed => loc'[p].ran = loc[p].ran
                        /\ (e.found \/ e.outcome = "installs") <=> pc'[p] # "exit"
                        /\ pc'[p] = "exit" => exitCode'[p] = 1 /\ loc'[p].err # NoErr
                        /\ pc'[p] # "exit" =>
                              pc'[p] = IF pc[p] = "plugin1" THEN "plugin2" ELSE "compile"
              /\ pc[p] \notin {"plugin1", "plugin2"} =>
                    /\ loc'[p].ensured = IF pc'[p] = "start" THEN <<>> ELSE loc[p].ensured
                    /\ NoneRan(loc'[p].ran, {"install"}) \/ loc'[p].compiler = PROTOC_EXECUTABLE]_vars

\* protoc-gen-go was found, protoc-gen-go-grpc was installed, and the
\* compiler has run after both.
C30_Witness ==
    \E p \in Procs :
        /\ loc[p].compiler = PROTOC_EXECUTABLE
        /\ Len(loc[p].ensured) = 2
        /\ loc[p].ensured[1].found /\ ~loc[p].ensured[2].found
        /\ \E i \in RanAt(p, "install"), j \in RanAt(p, "compiler") : i < j

====
